---- MODULE Spec2Model ----
(***************************************************************************)
(* A model of sunburnt's query builder (search.py) and of the part of the  *)
(* field type system (schema.py) it relies on.                             *)
(*                                                                         *)
(* Python objects live in a heap: LuceneQuery objects (nodes), the list    *)
(* objects held in their `subqueries` attribute, the set objects held as   *)
(* values of their `terms` / `phrases` dictionaries and the dict objects   *)
(* held as values of an Options block's `fields`.  References are indices  *)
(* into the heap, so that copy.copy's shallow copies, and the in-place     *)
(* writes of normalize(), alias exactly as they do in the program.         *)
(***************************************************************************)
EXTENDS Integers, Sequences, FiniteSets, TLC

VARIABLES
    heap,       \* the object graph: [nodes, lists, sets, dicts]
    cur,        \* the LuceneQuery the client is building (0: none yet)
    searches,   \* the SolrSearch objects the client holds, in order of creation
    call,       \* the client's last call: its name and arguments
    out,        \* what the last call returned
    raised,     \* the exception the last call raised ("" if none)
    nops,       \* number of client calls made so far
    budget,     \* number of client calls the behaviour is explored to
    dynamic_field_cache,    \* SolrSchema.dynamic_field_cache: name -> field
    threads     \* the threads resolving a field name, each at its position

vars == <<heap, cur, searches, call, out, raised, nops, budget,
          dynamic_field_cache, threads>>

\* the state of field resolution, which the query builder leaves alone
resolver == <<dynamic_field_cache, threads>>
\* the state of the query builder, which field resolution leaves alone
builder == <<heap, cur, searches, call, out, raised, nops, budget>>

(***************************************************************************)
(* Bounds of the model.                                                    *)
(***************************************************************************)
MaxOps == 5          \* client calls per behaviour of SpecQuery
MaxNormOps == 4      \* client calls per behaviour of SpecNorm
MaxSearchOps == 3    \* client calls per behaviour of SpecSearch
MaxBoosts == 3       \* boost_relevancy calls per behaviour of SpecBoost
MaxIndex == 16       \* largest bound of a slice in SpecSlice
MaxNegIndex == 5     \* largest negative bound of a slice in SpecSlice, negated
MaxStep == 3         \* largest step of a slice in SpecSlice, either way

(***************************************************************************)
(* Generic helpers.                                                        *)
(***************************************************************************)
None == "None"                  \* Python's None, as a dictionary key or a flag
Some(v) == <<v>>                \* an attribute holding a value ...
Nothing == << >>                \* ... or holding False / None

Range(f) == {f[x] : x \in DOMAIN f}
Last(seq) == seq[Len(seq)]

\* TRUE; as a guard it has TLC evaluate x before what follows
Evaluated(x) == x = x

\* The schema the client's SolrInterface was built from.  A field is its class
\* (kind) and the attributes search.py reads.
Schema ==
    [ fields |->
        [ text_field   |-> [kind |-> "unicode", indexed |-> TRUE,  multi_valued |-> FALSE,
                            stored |-> TRUE],
          string_field |-> [kind |-> "unicode", indexed |-> TRUE,  multi_valued |-> TRUE,
                            stored |-> TRUE],
          short_field  |-> [kind |-> "short",   indexed |-> TRUE,  multi_valued |-> FALSE,
                            stored |-> TRUE],
          int_field    |-> [kind |-> "int",     indexed |-> TRUE,  multi_valued |-> FALSE,
                            stored |-> TRUE],
          long_field   |-> [kind |-> "long",    indexed |-> TRUE,  multi_valued |-> FALSE,
                            stored |-> FALSE],
          boolean_field|-> [kind |-> "boolean", indexed |-> TRUE,  multi_valued |-> FALSE,
                            stored |-> TRUE],
          stored_field |-> [kind |-> "unicode", indexed |-> FALSE, multi_valued |-> FALSE,
                            stored |-> TRUE] ],
      default_field_name |-> "text_field" ]

(***************************************************************************)
(* Values.  A value the client passes in, and the value a SolrFieldInstance *)
(* holds, is a string, an integer or a boolean: [t, s, n, b] with the       *)
(* unused components at their defaults, so that values of all types can be  *)
(* compared.  SolrFieldInstance.__eq__ and __hash__ look at the value only, *)
(* so an instance is represented by its value.                             *)
(***************************************************************************)
StrV(s)  == [t |-> "str",  s |-> s,  n |-> 0, b |-> FALSE]
IntV(n)  == [t |-> "int",  s |-> "", n |-> n, b |-> FALSE]
BoolV(b) == [t |-> "bool", s |-> "", n |-> 0, b |-> b]

\* The strings of the model: each with its rendering by
\* SolrString.escape_for_lqs_term and whether LuceneQuery.default_term_re
\* (^\w+$) matches it.
Strings ==
    { [s |-> "abc",         escaped |-> "abc",           word |-> TRUE],
      [s |-> "def",         escaped |-> "def",           word |-> TRUE],
      [s |-> "xyz",         escaped |-> "xyz",           word |-> TRUE],
      [s |-> "hello world", escaped |-> "hello\\ world", word |-> FALSE],
      [s |-> "3",           escaped |-> "3",             word |-> TRUE],
      [s |-> "-3",          escaped |-> "\\-3",          word |-> FALSE],
      [s |-> "32768",       escaped |-> "32768",         word |-> TRUE],
      [s |-> "true",        escaped |-> "true",          word |-> TRUE],
      [s |-> "false",       escaped |-> "false",         word |-> TRUE],
      [s |-> "1",           escaped |-> "1",             word |-> TRUE],
      [s |-> "0",           escaped |-> "0",             word |-> TRUE],
      [s |-> "*",           escaped |-> "*",             word |-> FALSE] }

StringInfo(s) == CHOOSE r \in Strings : r.s = s

Ok(v)    == [ok |-> TRUE,  v |-> v,       err |-> ""]
Fail(e)  == [ok |-> FALSE, v |-> StrV(""), err |-> e]

(***************************************************************************)
(* Python's int is unbounded, TLC's integers end at 2^31 - 1.  The values  *)
(* of SolrIntField and SolrLongField are therefore held as a sign and a    *)
(* magnitude, the magnitude a sequence of limbs in base 2^15, the most     *)
(* significant first, without leading zeros (zero is the empty sequence,   *)
(* with sign FALSE).  A float is held as its integral part and whether a   *)
(* fractional part of one half follows it.                                 *)
(***************************************************************************)
LimbBase == 2^15
LongV(neg, mag) ==
    [t |-> "long", s |-> "", n |-> 0, b |-> neg /\ mag # << >>, mag |-> mag]
FloatV(neg, mag, half) ==
    [t |-> "float", s |-> "", n |-> 0, b |-> neg, mag |-> mag, half |-> half]

Front(seq) == SubSeq(seq, 1, Len(seq) - 1)

\* a * m + c, for a magnitude a and small m, c
RECURSIVE MagMulAdd(_, _, _)
MagMulAdd(a, m, c) ==
    IF a = << >>
    THEN (IF c = 0 THEN << >>
          ELSE MagMulAdd(<< >>, m, c \div LimbBase) \o <<c % LimbBase>>)
    ELSE LET t == Last(a) * m + c
         IN  MagMulAdd(Front(a), m, t \div LimbBase) \o <<t % LimbBase>>

\* a - 1, for a magnitude a > 0
RECURSIVE MagPred(_)
MagPred(a) ==
    IF Last(a) > 0
    THEN (IF a = <<1>> THEN << >> ELSE Front(a) \o <<Last(a) - 1>>)
    ELSE MagPred(Front(a)) \o <<LimbBase - 1>>

\* 2 ** k: the limb 2 ** (k mod 15), then k div 15 limbs of zero
MagPow2(k) == <<2 ^ (k % 15)>> \o [i \in 1..(k \div 15) |-> 0]

MagLess(a, b) ==
    \/ Len(a) < Len(b)
    \/ /\ Len(a) = Len(b)
       /\ \E i \in 1..Len(a) : /\ a[i] < b[i]
                                /\ \A j \in 1..i - 1 : a[j] = b[j]

\* x < y on ints
IntLess(x, y) ==
    IF x.b # y.b THEN x.b
    ELSE IF x.b THEN MagLess(y.mag, x.mag) ELSE MagLess(x.mag, y.mag)

Digits == "0123456789"
IsDigit(c) == \E d \in 1..10 : SubSeq(Digits, d, d) = c
DigitOf(c) == (CHOOSE d \in 1..10 : SubSeq(Digits, d, d) = c) - 1

\* the magnitude a string of decimal digits stands for
RECURSIVE MagOfDigits(_, _)
MagOfDigits(str, acc) ==
    IF Len(str) = 0 THEN acc
    ELSE MagOfDigits(SubSeq(str, 2, Len(str)),
                     MagMulAdd(acc, 10, DigitOf(SubSeq(str, 1, 1))))

IsNumeral(str) ==
    /\ Len(str) > 0
    /\ \A i \in 1..Len(str) : IsDigit(SubSeq(str, i, i))

\* int(value): a float is truncated towards zero; a string that is no
\* numeral raises ValueError
int(value) ==
    CASE value.t = "long"  -> Ok(value)
      [] value.t = "float" -> Ok(LongV(value.b, value.mag))
      [] value.t = "int"   ->
            Ok(LongV(value.n < 0,
                     MagMulAdd(<< >>, 1, IF value.n < 0 THEN -value.n ELSE value.n)))
      [] value.t = "bool"  -> Ok(LongV(FALSE, IF value.b THEN <<1>> ELSE << >>))
      [] value.t = "str"   ->
            LET neg == Len(value.s) > 0 /\ SubSeq(value.s, 1, 1) = "-"
                str == IF neg THEN SubSeq(value.s, 2, Len(value.s)) ELSE value.s
            IN  IF IsNumeral(str) THEN Ok(LongV(neg, MagOfDigits(str, << >>)))
                ELSE Fail("ValueError")

\* a div m and a mod m, for a magnitude a and small m: [q, r], the quotient
\* with the leading zeros the division leaves
RECURSIVE MagDivMod(_, _, _)
MagDivMod(a, m, carry) ==
    IF a = << >> THEN [q |-> << >>, r |-> carry]
    ELSE LET t == carry * LimbBase + Head(a)
             rest == MagDivMod(Tail(a), m, t % m)
         IN  [q |-> <<t \div m>> \o rest.q, r |-> rest.r]

RECURSIVE Stripped(_)
Stripped(a) == IF a # << >> /\ Head(a) = 0 THEN Stripped(Tail(a)) ELSE a

\* the decimal digits of a magnitude ("" for zero)
RECURSIVE Decimal(_)
Decimal(a) ==
    IF a = << >> THEN ""
    ELSE LET d == MagDivMod(a, 10, 0)
         IN  Decimal(Stripped(d.q)) \o SubSeq(Digits, d.r + 1, d.r + 1)

(***************************************************************************)
(* The values of the binary, UUID and date fields.  A bytes object is its  *)
(* sequence of bytes.  A uuid.UUID is its 32 hexadecimal digits, in lower  *)
(* case.  A datetime is its date, its time of day and its microseconds; a  *)
(* solr_date is an object: it has an identity, and holds a datetime.       *)
(***************************************************************************)
BytesV(bytes) == [t |-> "bytes", s |-> "", n |-> 0, b |-> FALSE, bytes |-> bytes]
UuidV(hex) == [t |-> "uuid", s |-> hex, n |-> 0, b |-> FALSE]
DatetimeV(date, time, microsecond) ==
    [t |-> "datetime", s |-> "", n |-> 0, b |-> FALSE,
     date |-> date, time |-> time, microsecond |-> microsecond]
SolrDateV(id, dt) ==
    [t |-> "solr_date", s |-> "", n |-> 0, b |-> FALSE, id |-> id, _dt_obj |-> dt]

\* base64.b64encode
Base64Alphabet ==
    "ABCDEFGHIJKLMNOPQRSTUVWXYZabcdefghijklmnopqrstuvwxyz0123456789+/"
Base64Char(i) == SubSeq(Base64Alphabet, i + 1, i + 1)
RECURSIVE b64encode(_)
b64encode(bytes) ==
    CASE Len(bytes) = 0 -> ""
      [] Len(bytes) = 1 ->
            Base64Char(bytes[1] \div 4) \o Base64Char((bytes[1] % 4) * 16) \o "=="
      [] Len(bytes) = 2 ->
            Base64Char(bytes[1] \div 4)
                \o Base64Char((bytes[1] % 4) * 16 + bytes[2] \div 16)
                \o Base64Char((bytes[2] % 16) * 4) \o "="
      [] OTHER ->
            Base64Char(bytes[1] \div 4)
                \o Base64Char((bytes[1] % 4) * 16 + bytes[2] \div 16)
                \o Base64Char((bytes[2] % 16) * 4 + bytes[3] \div 64)
                \o Base64Char(bytes[3] % 64)
                \o b64encode(SubSeq(bytes, 4, Len(bytes)))

\* base64.b64decode, of text that is padded to a multiple of four characters
\* of the alphabet
Base64Index(c) == CHOOSE i \in 0..63 : Base64Char(i) = c
RECURSIVE b64decode(_)
b64decode(str) ==
    IF Len(str) = 0 THEN << >>
    ELSE LET c == [i \in 1..4 |-> SubSeq(str, i, i)]
             i1 == Base64Index(c[1])
             i2 == Base64Index(c[2])
         IN  IF c[3] = "=" THEN <<i1 * 4 + i2 \div 16>>
             ELSE IF c[4] = "="
             THEN <<i1 * 4 + i2 \div 16,
                    (i2 % 16) * 16 + Base64Index(c[3]) \div 4>>
             ELSE <<i1 * 4 + i2 \div 16,
                    (i2 % 16) * 16 + Base64Index(c[3]) \div 4,
                    (Base64Index(c[3]) % 4) * 64 + Base64Index(c[4])>>
                      \o b64decode(SubSeq(str, 5, Len(str)))

\* uuid.UUID(hex): the hyphens are dropped; what remains has to be 32
\* hexadecimal digits, of either case
HexLower == "0123456789abcdef"
HexUpper == "0123456789ABCDEF"
IsHex(c) == \E d \in 1..16 : c \in {SubSeq(HexLower, d, d), SubSeq(HexUpper, d, d)}
HexLowered(c) ==
    LET d == CHOOSE d \in 1..16 : c \in {SubSeq(HexLower, d, d), SubSeq(HexUpper, d, d)}
    IN  SubSeq(HexLower, d, d)
RECURSIVE WithoutHyphens(_)
WithoutHyphens(str) ==
    IF Len(str) = 0 THEN ""
    ELSE (IF SubSeq(str, 1, 1) = "-" THEN "" ELSE SubSeq(str, 1, 1))
            \o WithoutHyphens(SubSeq(str, 2, Len(str)))
RECURSIVE Lowered(_)
Lowered(hex) ==
    IF Len(hex) = 0 THEN ""
    ELSE HexLowered(SubSeq(hex, 1, 1)) \o Lowered(SubSeq(hex, 2, Len(hex)))
UUID(str) ==
    LET hex == WithoutHyphens(str)
    IN  IF Len(hex) = 32 /\ \A i \in 1..32 : IsHex(SubSeq(hex, i, i))
        THEN Ok(UuidV(Lowered(hex)))
        ELSE Fail("ValueError")

\* UUID.__str__ and UUID.urn
UUID_str(v) ==
    SubSeq(v.s, 1, 8) \o "-" \o SubSeq(v.s, 9, 12) \o "-" \o SubSeq(v.s, 13, 16)
        \o "-" \o SubSeq(v.s, 17, 20) \o "-" \o SubSeq(v.s, 21, 32)
UUID_urn(v) == "urn:uuid:" \o UUID_str(v)

\* SolrUUIDField.from_user_data, to_solr, from_solr
SolrUUIDField_from_user_data(v) ==
    IF v = StrV("NEW") THEN Ok(v)
    ELSE IF v.t = "uuid" THEN Ok(v)
    ELSE IF v.t = "str" THEN UUID(v.s)
    ELSE Fail("AttributeError")
SolrUUIDField_to_solr(v) ==
    IF v = StrV("NEW") THEN "NEW"
    ELSE SubSeq(UUID_urn(v), 10, Len(UUID_urn(v)))
SolrUUIDField_from_solr(v) == UUID(v)

\* datetime.isoformat()
Padded(str, width) == SubSeq("000000", 1, width - Len(str)) \o str
isoformat(dt) ==
    dt.date \o "T" \o dt.time
        \o (IF dt.microsecond = 0 THEN ""
            ELSE "." \o Padded(ToString(dt.microsecond), 6))

\* solr_date.__str__
solr_date_str(v) == isoformat(v._dt_obj) \o "Z"

\* dates.datetime_from_w3_datestring, of the texts solr_date.__str__ writes:
\* a date, T, a time, an optional fraction of a second, Z
IsDateShape(str, shape) ==
    /\ Len(str) = Len(shape)
    /\ \A i \in 1..Len(shape) :
          IF SubSeq(shape, i, i) = "d" THEN IsDigit(SubSeq(str, i, i))
          ELSE SubSeq(str, i, i) = SubSeq(shape, i, i)
RECURSIVE DigitsValue(_)
DigitsValue(str) ==
    IF Len(str) = 0 THEN 0
    ELSE DigitsValue(SubSeq(str, 1, Len(str) - 1)) * 10
            + DigitOf(SubSeq(str, Len(str), Len(str)))
datetime_from_w3_datestring(str) ==
    IF IsDateShape(str, "dddd-dd-ddTdd:dd:ddZ")
    THEN Ok(DatetimeV(SubSeq(str, 1, 10), SubSeq(str, 12, 19), 0))
    ELSE IF IsDateShape(str, "dddd-dd-ddTdd:dd:dd.ddddddZ")
    THEN Ok(DatetimeV(SubSeq(str, 1, 10), SubSeq(str, 12, 19),
                      DigitsValue(SubSeq(str, 21, 26))))
    ELSE Fail("ValueError")

\* solr_date(v): a new object, with the identity id
solr_date(v, id) ==
    CASE v.t = "solr_date" -> Ok(SolrDateV(id, v._dt_obj))
      [] v.t = "str" ->
            LET dt == datetime_from_w3_datestring(v.s)
            IN  IF dt.ok THEN Ok(SolrDateV(id, dt.v)) ELSE Fail("SolrError")
      [] v.t = "datetime" -> Ok(SolrDateV(id, v))
      [] OTHER -> Fail("SolrError")

\* a == b: solr_date defines __lt__ (and __cmp__, which Python 3 does not
\* call) but no __eq__, so two solr_date objects are equal when they are the
\* same object; every other value is compared by what it holds
PyEq(a, b) ==
    IF a.t = "solr_date" /\ b.t = "solr_date" THEN a.id = b.id ELSE a = b

\* six.text_type(value)
text_type(v) ==
    CASE v.t = "str"  -> v.s
      [] v.t = "int"  -> ToString(v.n)
      [] v.t = "bool" -> IF v.b THEN "True" ELSE "False"
      [] v.t = "long" -> IF v.mag = << >> THEN "0"
                         ELSE (IF v.b THEN "-" ELSE "") \o Decimal(v.mag)
      [] v.t = "solr_date" -> solr_date_str(v)

\* SolrString.escape_for_lqs_term: reserved characters get a backslash.
escape_for_lqs_term(s) == StringInfo(s).escaped

\* LuceneQuery.default_term_re.match(arg)
default_term_re_match(s) == StringInfo(s).word

\* SolrShortField.min / .max
ShortMin == -(2^15)
ShortMax == 2^15 - 1

\* SolrBooleanField.normalize
SolrBooleanField_normalize(value) ==
    CASE value.t = "str" ->
            IF value.s = "true" THEN Ok(BoolV(TRUE))
            ELSE IF value.s = "false" THEN Ok(BoolV(FALSE))
            ELSE Fail("ValueError")
      [] value.t = "int"  -> Ok(BoolV(value.n # 0))
      [] value.t = "bool" -> Ok(value)

\* SolrShortField, SolrIntField, SolrLongField: min = -(2**k), max = 2**k - 1
MinMaxExponent == [short |-> 15, int |-> 31, long |-> 63]
IntegerMin(kind) == LongV(TRUE, MagPow2(MinMaxExponent[kind]))
IntegerMax(kind) == LongV(FALSE, MagPred(MagPow2(MinMaxExponent[kind])))

\* the test for the range taken as `v < min`, without `v > max`: what
\* OutOfRange is not
BelowMin(v, min, max) == IntLess(v, min)

\* v < self.min or v > self.max
OutOfRange(v, min, max) == IntLess(v, min) \/ IntLess(max, v)

\* SolrNumericalField.normalize for the integer fields, on values of any size
SolrIntegerField_normalize(kind, value) ==
    LET v == int(value)
    IN  IF ~v.ok THEN Fail("SolrError")
        ELSE IF OutOfRange(v.v, IntegerMin(kind), IntegerMax(kind))
             THEN Fail("SolrError")
             ELSE Ok(v.v)

\* an int within the range of a short, as the IntV the short field holds
RECURSIVE MagValue(_)
MagValue(a) == IF a = << >> THEN 0 ELSE MagValue(Front(a)) * LimbBase + Last(a)
Narrowed(r) ==
    IF r.ok THEN Ok(IntV(IF r.v.b THEN -MagValue(r.v.mag) ELSE MagValue(r.v.mag)))
    ELSE r

\* SolrNumericalField.normalize for SolrShortField (base_type = int): int()
\* of a string that is no numeral raises ValueError, turned into SolrError;
\* so does a value outside [min, max].
SolrNumericalField_normalize(value) ==
    CASE value.t = "int" ->
            IF value.n < ShortMin \/ value.n > ShortMax
            THEN Fail("SolrError") ELSE Ok(IntV(value.n))
      [] value.t = "bool" -> Ok(IntV(IF value.b THEN 1 ELSE 0))
      [] OTHER -> Narrowed(SolrIntegerField_normalize("short", value))

\* SolrField.from_user_data, by field class.
from_user_data(field, value) ==
    CASE field.kind = "unicode" -> Ok(StrV(text_type(value)))
      [] field.kind = "short"   -> SolrNumericalField_normalize(value)
      [] field.kind \in {"int", "long"} ->
            SolrIntegerField_normalize(field.kind, value)
      [] field.kind = "boolean" -> SolrBooleanField_normalize(value)

\* SolrField.to_solr, by field class.
to_solr(kind, value) ==
    CASE kind = "boolean" -> IF value.b THEN "true" ELSE "false"
      [] kind = "binary"  -> b64encode(value.bytes)
      [] kind = "uuid"    -> SolrUUIDField_to_solr(value)
      [] OTHER            -> text_type(value)

\* SolrField.from_user_data for every field class; id is the identity of the
\* object it makes, if it makes one
AnyFromUserData(kind, value, id) ==
    CASE kind = "binary" -> Ok(value)
      [] kind = "uuid"   -> SolrUUIDField_from_user_data(value)
      [] kind = "date"   -> solr_date(value, id)
      [] OTHER           -> from_user_data([kind |-> kind], value)

\* SolrField.from_solr, by field class, of the text (for a binary field the
\* bytes) that to_solr gave
from_solr(kind, str, id) ==
    CASE kind = "unicode" -> Ok(StrV(str))
      [] kind = "binary"  -> Ok(BytesV(b64decode(str)))
      [] kind = "uuid"    -> SolrUUIDField_from_solr(str)
      [] kind = "date"    -> solr_date(StrV(str), id)
      [] OTHER            -> from_user_data([kind |-> kind], StrV(str))

\* SolrFieldInstance.to_query: SolrUnicodeField escapes the value itself,
\* every other field its to_solr form.
to_query(kind, value) ==
    IF kind = "unicode" THEN escape_for_lqs_term(value.s)
    ELSE escape_for_lqs_term(to_solr(kind, value))

\* SolrSchema.match_field: the schema of the model declares no dynamic field,
\* so a name that is no static field matches nothing (and the dynamic field
\* cache stays empty).
HasField(name) == name \in DOMAIN Schema.fields
match_field(name) == Schema.fields[name]

\* The class of the field a terms / phrases key stands for: None is the
\* default field, "*" the artificial SolrWildcardField.
KindOfKey(name) ==
    IF name = None THEN Schema.fields[Schema.default_field_name].kind
    ELSE IF name = "*" THEN "unicode"
    ELSE Schema.fields[name].kind

(***************************************************************************)
(* Python's order on the strings the model sorts: the rendered clauses     *)
(* (sorted() in serialize_term_queries), the names, relations and string   *)
(* values of ranges (sorted() in serialize_range_queries and add_range)    *)
(* and field names, listed in the order of Python's str comparison.        *)
(***************************************************************************)
StrOrder ==
    << "*", "*:*", "*:0", "*:1", "*:3", "*:32768", "*:\\-3", "*:abc",
       "*:def", "*:false", "*:hello\\ world", "*:true", "*:xyz", "-3", "0",
       "1", "3", "32768", "\\-3", "abc", "any", "boolean_field",
       "boolean_field:*", "boolean_field:0", "boolean_field:1",
       "boolean_field:3", "boolean_field:32768", "boolean_field:\\-3",
       "boolean_field:abc", "boolean_field:def", "boolean_field:false",
       "boolean_field:hello\\ world", "boolean_field:true",
       "boolean_field:xyz", "def", "false", "gt", "gte", "hello world",
       "hello\\ world", "int_field", "lt", "lte", "range", "rangeexc", "score", "short_field",
       "short_field:*", "short_field:0", "short_field:1", "short_field:3",
       "short_field:32768", "short_field:\\-3", "short_field:abc",
       "short_field:def", "short_field:false", "short_field:hello\\ world",
       "short_field:true", "short_field:xyz", "stored_field",
       "stored_field:*", "stored_field:0", "stored_field:1",
       "stored_field:3", "stored_field:32768", "stored_field:\\-3",
       "stored_field:abc", "stored_field:def", "stored_field:false",
       "stored_field:hello\\ world", "stored_field:true", "stored_field:xyz",
       "string_field", "string_field:*", "string_field:0", "string_field:1",
       "string_field:3", "string_field:32768", "string_field:\\-3",
       "string_field:abc", "string_field:def", "string_field:false",
       "string_field:hello\\ world", "string_field:true", "string_field:xyz",
       "text_field", "text_field:*", "text_field:0", "text_field:1",
       "text_field:3", "text_field:32768", "text_field:\\-3",
       "text_field:abc", "text_field:def", "text_field:false",
       "text_field:hello\\ world", "text_field:true", "text_field:xyz",
       "true", "xyz" >>

StrRank(s) == CHOOSE i \in DOMAIN StrOrder : StrOrder[i] = s

\* sorted(S) for a finite set S of strings.
RECURSIVE sorted(_)
sorted(S) ==
    IF S = {} THEN << >>
    ELSE LET m == CHOOSE x \in S : \A y \in S : StrRank(x) <= StrRank(y)
         IN  <<m>> \o sorted(S \ {m})

\* sep.join(seq)
RECURSIVE Join(_, _)
Join(seq, sep) ==
    IF seq = << >> THEN ""
    ELSE IF Len(seq) = 1 THEN seq[1]
    ELSE seq[1] \o sep \o Join(Tail(seq), sep)

(***************************************************************************)
(* The heap.  An operation takes the heap and returns [h, v]: the heap     *)
(* after it and its value (an object reference, or whatever it returns).   *)
(***************************************************************************)
EmptyHeap == [nodes |-> << >>, lists |-> << >>, sets |-> << >>, dicts |-> << >>]

Ret(h, v) == [h |-> h, v |-> v]

\* a new list / set / dict / LuceneQuery object
NewList(h, l) == Ret([h EXCEPT !.lists = Append(@, l)], Len(h.lists) + 1)
NewSet(h, S)  == Ret([h EXCEPT !.sets = Append(@, S)], Len(h.sets) + 1)
NewDict(h, d) == Ret([h EXCEPT !.dicts = Append(@, d)], Len(h.dicts) + 1)
NewNode(h, n) == Ret([h EXCEPT !.nodes = Append(@, n)], Len(h.nodes) + 1)

Subqueries(h, q) == h.lists[h.nodes[q].subqueries]

\* truth value of the _pow attribute (False, or the score: 0 is falsy)
Truthy(pow) == pow # Nothing /\ pow[1] # 0

\* LuceneQuery.__init__ with original=None
LuceneQuery(h, option_flag) ==
    LET l == NewList(h, << >>)
    IN  NewNode(l.h,
            [ option_flag |-> option_flag,
              terms       |-> << >>,
              phrases     |-> << >>,
              ranges      |-> {},
              subqueries  |-> l.v,
              _and        |-> TRUE,
              _or         |-> FALSE,
              _not        |-> FALSE,
              _pow        |-> Nothing,
              boosts      |-> << >>,
              normalized  |-> FALSE ])

\* LuceneQuery.__init__ with an original: copy.copy gives a new dict holding
\* the SAME set objects, a new set of ranges, a new list holding the same
\* sub-query objects, a new list of boosts.
LuceneQueryFrom(h, original) ==
    LET o == h.nodes[original]
        l == NewList(h, h.lists[o.subqueries])
    IN  NewNode(l.h, [o EXCEPT !.subqueries = l.v, !.normalized = FALSE])

\* LuceneQuery.clone(**kwargs): kwargs is a record of the attributes to set.
\* (When subqueries is among them, the copied list is dropped at once and
\* is not allocated here.)
clone(h, self, kwargs) ==
    LET q == IF "subqueries" \in DOMAIN kwargs
             THEN NewNode(h, [h.nodes[self] EXCEPT !.normalized = FALSE])
             ELSE LuceneQueryFrom(h, self)
        n == q.h.nodes[q.v]
        m == [f \in DOMAIN n |-> IF f \in DOMAIN kwargs THEN kwargs[f] ELSE n[f]]
    IN  Ret([q.h EXCEPT !.nodes[q.v] = m], q.v)

\* LuceneQuery.__bool__
bool(h, q) ==
    LET n == h.nodes[q]
    IN  DOMAIN n.terms # {} \/ DOMAIN n.phrases # {} \/ n.ranges # {}
        \/ Subqueries(h, q) # << >>

\* sum(len(v) for v in d.values())
RECURSIVE SumLen(_, _, _)
SumLen(h, d, keys) ==
    IF keys = {} THEN 0
    ELSE LET k == CHOOSE x \in keys : TRUE
         IN  Cardinality(h.sets[d[k]]) + SumLen(h, d, keys \ {k})

\* LuceneQuery.__len__
RECURSIVE len(_, _)
len(h, q) ==
    LET n  == h.nodes[q]
        sq == Subqueries(h, q)
        subquery_length == IF Len(sq) = 1 THEN len(h, sq[1]) ELSE Len(sq)
    IN  SumLen(h, n.terms, DOMAIN n.terms) + SumLen(h, n.phrases, DOMAIN n.phrases)
        + Cardinality(n.ranges) + subquery_length

\* The combinators below assign q.subqueries a new list; the empty list made
\* by __init__ is referred to by nothing else, so it stands for the new one.

\* LuceneQuery.__or__
__or__(h, self, other) ==
    LET q == LuceneQuery(h, None)
        l == q.h.nodes[q.v].subqueries
    IN  Ret([q.h EXCEPT !.nodes[q.v]._and = FALSE, !.nodes[q.v]._or = TRUE,
                        !.lists[l] = <<self, other>>], q.v)

\* LuceneQuery.__and__
__and__(h, self, other) ==
    LET q == LuceneQuery(h, None)
        l == q.h.nodes[q.v].subqueries
    IN  Ret([q.h EXCEPT !.lists[l] = <<self, other>>], q.v)

\* LuceneQuery.__invert__
__invert__(h, self) ==
    LET q == LuceneQuery(h, None)
        l == q.h.nodes[q.v].subqueries
    IN  Ret([q.h EXCEPT !.nodes[q.v]._and = FALSE, !.nodes[q.v]._not = TRUE,
                        !.lists[l] = <<self>>], q.v)

\* LuceneQuery.__pow__ (value is a number, so float(value) succeeds)
__pow__(h, self, value) ==
    LET q == LuceneQuery(h, None)
        l == q.h.nodes[q.v].subqueries
    IN  Ret([q.h EXCEPT !.nodes[q.v]._and = FALSE, !.nodes[q.v]._pow = Some(value),
                        !.lists[l] = <<self>>], q.v)

(***************************************************************************)
(* Adding clauses to a node.  These return [h, v] with v the exception     *)
(* raised ("" if none); what was written before the raise stays written.   *)
(*                                                                         *)
(* A keyword argument is [k, scalar, v, vs]: k the key split at "__", and  *)
(* the value, either the scalar v or the tuple vs.                         *)
(***************************************************************************)
KwArg(k, v)    == [k |-> k, scalar |-> TRUE,  v |-> v,        vs |-> << >>]
KwTuple(k, vs) == [k |-> k, scalar |-> FALSE, v |-> StrV(""), vs |-> vs]

KeyStr(k) == Join(k, "__")

\* getattr(self, attr)[key].add(inst) on a defaultdict(set): a missing key
\* gets a new set in this node's dict; a present key's set object is
\* updated in place.
DictSetAdd(h, self, attr, key, inst) ==
    LET d == h.nodes[self][attr]
    IN  IF key \in DOMAIN d
        THEN [h EXCEPT !.sets[d[key]] = @ \cup {inst}]
        ELSE LET s == NewSet(h, {inst})
             IN  [s.h EXCEPT !.nodes[self][attr] = d @@ (key :> s.v)]

\* LuceneQuery.term_or_phrase
term_or_phrase(arg) == IF default_term_re_match(arg) THEN "terms" ELSE "phrases"

\* the loop `for inst in insts` of add_exact
RECURSIVE AddInsts(_, _, _, _, _, _)
AddInsts(h, self, field, field_name, insts, tp) ==
    IF insts = << >> THEN h
    ELSE LET inst == Head(insts)
             this_term_or_phrase ==
                 IF field.kind = "unicode"
                 THEN (IF tp # None THEN tp ELSE term_or_phrase(inst.s))
                 ELSE "terms"
         IN  AddInsts(DictSetAdd(h, self, this_term_or_phrase, field_name, inst),
                      self, field, field_name, Tail(insts), tp)

\* LuceneQuery.add_exact; `values` is the list of values after the wrapping
\* of a scalar.
add_exact(h, self, field_name, values, tp) ==
    IF field_name = "*"
    THEN IF Len(values) = 1 /\ values[1] = StrV("*")
         THEN Ret(DictSetAdd(h, self, "terms", "*", StrV("*")), "")
         ELSE Ret(h, "SolrError")
    ELSE LET field == IF field_name = None
                      THEN Schema.fields[Schema.default_field_name]
                      ELSE match_field(field_name)
             insts == [i \in DOMAIN values |-> from_user_data(field, values[i])]
             bad   == {i \in DOMAIN values : ~insts[i].ok}
         IN  IF bad # {}
             THEN Ret(h, insts[CHOOSE i \in bad : \A j \in bad : i <= j].err)
             ELSE Ret(AddInsts(h, self, field, field_name,
                               [i \in DOMAIN values |-> insts[i].v], tp), "")

\* the order turned around: a >= b
InstGE(a, b) == IF a.t = "int" THEN a.n >= b.n ELSE StrRank(a.s) >= StrRank(b.s)

\* SolrFieldInstance.__lt__ negated and swapped: a <= b on instance values
InstLE(a, b) == IF a.t = "int" THEN a.n <= b.n ELSE StrRank(a.s) <= StrRank(b.s)

range_query_rels == {"any", "lt", "lte", "gt", "gte", "rangeexc", "range"}

\* self.ranges.add((field_name, rel, insts))
RangesAdd(h, self, field_name, rel, insts) ==
    Ret([h EXCEPT !.nodes[self].ranges =
            @ \cup {[name |-> field_name, rel |-> rel, insts |-> insts]}], "")

\* add_range for rel in ('range', 'rangeexc'), a and b being what
\* instance_from_user_data made of the two bounds: tuple(sorted(...))
AddRangePair(h, self, field_name, rel, a, b) ==
    IF ~a.ok THEN Ret(h, a.err)
    ELSE IF ~b.ok THEN Ret(h, b.err)
    ELSE IF InstLE(a.v, b.v) THEN RangesAdd(h, self, field_name, rel, <<a.v, b.v>>)
    ELSE RangesAdd(h, self, field_name, rel, <<b.v, a.v>>)

\* add_range for a one-sided relation, a being the instance of the bound
AddRangeSingle(h, self, field_name, rel, a) ==
    IF ~a.ok THEN Ret(h, a.err) ELSE RangesAdd(h, self, field_name, rel, <<a.v>>)

\* LuceneQuery.add_range (a scalar argument of the model has no len())
add_range(h, self, field_name, rel, arg) ==
    LET field == match_field(field_name)
    IN  IF field.kind = "boolean" THEN Ret(h, "ValueError")
        ELSE IF rel \notin range_query_rels THEN Ret(h, "SolrError")
        ELSE IF rel \in {"range", "rangeexc"}
        THEN IF arg.scalar \/ Len(arg.vs) # 2 THEN Ret(h, "SolrError")
             ELSE AddRangePair(h, self, field_name, rel,
                               from_user_data(field, arg.vs[1]),
                               from_user_data(field, arg.vs[2]))
        ELSE IF rel = "any"
        THEN IF arg.scalar /\ arg.v = BoolV(TRUE)
             THEN RangesAdd(h, self, field_name, rel, << >>)
             ELSE Ret(h, "SolrError")
        ELSE IF ~arg.scalar THEN Ret(h, "SolrError")
        ELSE AddRangeSingle(h, self, field_name, rel, from_user_data(field, arg.v))

\* the loop `for value in args` of add; AddValuesNext is the loop after
\* add_exact returned r for the first value
RECURSIVE AddValues(_, _, _, _), AddValuesNext(_, _, _, _)
AddValues(h, self, values, tp) ==
    IF values = << >> THEN Ret(h, "")
    ELSE AddValuesNext(add_exact(h, self, None, <<Head(values)>>, tp),
                       self, Tail(values), tp)
AddValuesNext(r, self, values, tp) ==
    IF r.v # "" THEN r ELSE AddValues(r.h, self, values, tp)

\* the loop `for k, v in kwargs.items()` of add; AddKwargsNext is the loop
\* after add_exact / add_range returned r for the first keyword
RECURSIVE AddKwargs(_, _, _, _), AddKwargsNext(_, _, _, _)
AddKwargs(h, self, kwargs, tp) ==
    IF kwargs = << >> THEN Ret(h, "")
    ELSE LET kw == Head(kwargs)
             two == Len(kw.k) = 2
             field_name == IF two THEN kw.k[1] ELSE KeyStr(kw.k)
             rel == IF two THEN kw.k[2] ELSE "eq"
             star == Len(kw.k) = 1 /\ kw.k[1] = "*" /\ kw.scalar /\ kw.v = StrV("*")
         IN  IF ~HasField(field_name) /\ ~star THEN Ret(h, "ValueError")
             ELSE IF HasField(field_name) /\ ~match_field(field_name).indexed
             THEN Ret(h, "SolrError")
             ELSE IF rel = "eq"
             THEN AddKwargsNext(add_exact(h, self, field_name,
                                          IF kw.scalar THEN <<kw.v>> ELSE kw.vs, tp),
                                self, Tail(kwargs), tp)
             ELSE AddKwargsNext(add_range(h, self, field_name, rel, kw),
                                self, Tail(kwargs), tp)
AddKwargsNext(r, self, kwargs, tp) ==
    IF r.v # "" THEN r ELSE AddKwargs(r.h, self, kwargs, tp)

\* add after its loop over the positional values returned r
AddRest(r, self, kwargs) ==
    IF r.v # "" THEN r ELSE AddKwargs(r.h, self, kwargs.items, kwargs.top)

\* LuceneQuery.add: args is [queries, values], the LuceneQuery arguments and
\* the others, each in the order given; kwargs is [top, items], the value of
\* "__terms_or_phrases" (None if absent) and the other keywords.
add(h, self, args, kwargs) ==
    AddRest(AddValues([h EXCEPT !.nodes[self].normalized = FALSE,
                                !.lists[h.nodes[self].subqueries] = @ \o args.queries],
                      self, args.values, kwargs.top),
            self, kwargs)

NoArgs == [queries |-> << >>, values |-> << >>]
NoKwargs == [top |-> None, items |-> << >>]

\* what Q returns: [h, v, err], the new query q and the exception add raised
QResult(q, r) == [h |-> r.h, v |-> q, err |-> r.v]

\* LuceneQuery.Q
Q(h, args, kwargs) ==
    LET q == LuceneQuery(h, None)
    IN  QResult(q.v, add(q.h, q.v, args, kwargs))

\* the loop of add_boost: the first keyword that is refused, if any
RECURSIVE CheckBoost(_)
CheckBoost(items) ==
    IF items = << >> THEN ""
    ELSE LET k == KeyStr(Head(items).k)
         IN  IF ~HasField(k) THEN "ValueError"
             ELSE IF ~match_field(k).indexed THEN "SolrError"
             ELSE IF ~from_user_data(match_field(k), Head(items).v).ok
             THEN from_user_data(match_field(k), Head(items).v).err
             ELSE CheckBoost(Tail(items))

\* LuceneQuery.add_boost
add_boost(h, self, kwargs, boost_score) ==
    IF CheckBoost(kwargs.items) # "" THEN Ret(h, CheckBoost(kwargs.items))
    ELSE Ret([h EXCEPT !.nodes[self].boosts =
                 Append(@, [kwargs |-> kwargs, boost_score |-> boost_score])], "")

(***************************************************************************)
(* Normalization.                                                          *)
(***************************************************************************)
\* the union of the sets the dicts of `args` hold under key k
MergedSet(h, args, k) ==
    UNION {h.sets[args[i][k]] : i \in {j \in DOMAIN args : k \in DOMAIN args[j]}}

\* LuceneQuery.merge_term_dicts: a new dict of new sets
RECURSIVE MergeKeys(_, _, _, _)
MergeKeys(h, args, keys, d) ==
    IF keys = {} THEN Ret(h, d)
    ELSE LET k == CHOOSE x \in keys : TRUE
             s == NewSet(h, MergedSet(h, args, k))
         IN  MergeKeys(s.h, args, keys \ {k}, d @@ (k :> s.v))

merge_term_dicts(h, args) ==
    MergeKeys(h, args, UNION {DOMAIN args[i] : i \in DOMAIN args}, << >>)

\* the hoisting test with its AND half forgotten
HoistedOrOnly(h, obj, s) == h.nodes[s]._or /\ h.nodes[obj]._or

\* the test of normalize_node's loop that hoists s into obj
Hoisted(h, obj, s) ==
    (h.nodes[s]._and /\ h.nodes[obj]._and) \/ (h.nodes[s]._or /\ h.nodes[obj]._or)

\* the loop of normalize_node over obj.subqueries[i..]: what it appends to
\* the lists terms, phrases and subqueries, what it adds to ranges, and
\* whether it sets `mutated`
RECURSIVE NodeLoop(_, _, _)
NodeLoop(h, obj, i) ==
    LET sq == Subqueries(h, obj)
    IN  IF i > Len(sq)
        THEN [terms |-> << >>, phrases |-> << >>, ranges |-> {},
              subqueries |-> << >>, mutated |-> FALSE]
        ELSE LET s    == sq[i]
                 rest == NodeLoop(h, obj, i + 1)
             IN  IF ~bool(h, s) THEN [rest EXCEPT !.mutated = TRUE]
                 ELSE IF Hoisted(h, obj, s)
                 THEN [terms      |-> <<h.nodes[s].terms>> \o rest.terms,
                       phrases    |-> <<h.nodes[s].phrases>> \o rest.phrases,
                       ranges     |-> h.nodes[s].ranges \cup rest.ranges,
                       subqueries |-> Subqueries(h, s) \o rest.subqueries,
                       mutated    |-> TRUE]
                 ELSE [rest EXCEPT !.subqueries = <<s>> \o @]

\* the clone normalize_node makes when `mutated`: c is what its loop
\* collected, t and p what merge_term_dicts returned for terms and phrases
RebuildClone(obj, c, terms, p) ==
    LET l == NewList(p.h, c.subqueries)
    IN  clone(l.h, obj, [terms |-> terms, phrases |-> p.v,
                         ranges |-> p.h.nodes[obj].ranges \cup c.ranges,
                         subqueries |-> l.v])
RebuildPhrases(obj, c, t) ==
    RebuildClone(obj, c, t.v,
                 merge_term_dicts(t.h, <<t.h.nodes[obj].phrases>> \o c.phrases))
RebuildTerms(h, obj, c) ==
    IF c.mutated
    THEN RebuildPhrases(obj, c, merge_term_dicts(h, <<h.nodes[obj].terms>> \o c.terms))
    ELSE Ret(h, obj)

\* normalize_node up to "and clone if there have been any changes"
NodeRebuild(h, obj) == RebuildTerms(h, obj, NodeLoop(h, obj, 1))

\* normalize_node from "having recalculated subqueries" to its last
\* statement, for the node a.v the first half left, in the heap a.h
NodeCollapse(a) ==
    LET h  == a.h
        obj == a.v
        n  == h.nodes[obj]
        sq == Subqueries(h, obj)
    IN  IF Len(sq) = 0
        THEN IF n._not THEN clone(h, obj, [_not |-> FALSE, _and |-> TRUE])
             ELSE IF Truthy(n._pow) THEN clone(h, obj, [_pow |-> Nothing])
             ELSE a
        ELSE IF Len(sq) = 1
        THEN IF n._not /\ h.nodes[sq[1]]._not
             THEN clone(h, obj, [subqueries |-> h.nodes[sq[1]].subqueries,
                                 _not |-> FALSE, _and |-> TRUE])
             ELSE IF (n._and \/ n._or) /\ DOMAIN n.terms = {} /\ DOMAIN n.phrases = {}
                     /\ n.ranges = {} /\ n.boosts = << >>
             THEN Ret(h, sq[1])
             ELSE a
        ELSE a

\* obj.normalized = True
SetNormalized(b) == Ret([b.h EXCEPT !.nodes[b.v].normalized = TRUE], b.v)

\* LuceneQuery.normalize_node
normalize_node(h, obj) ==
    CASE Evaluated(h) -> SetNormalized(NodeCollapse(NodeRebuild(h, obj)))

\* list.index(x): the first position holding x
index(l, x) == CHOOSE i \in DOMAIN l : l[i] = x /\ \A j \in 1..(i - 1) : l[j] # x

\* the body of normalize's loop after normalize_node returned r for `this`
LoopBody(r, this, parent) ==
    LET h2  == SetNormalized(r).h
        sib == h2.nodes[parent].subqueries
    IN  IF r.v # this
        THEN [h2 EXCEPT !.lists[sib][index(h2.lists[sib], this)] = r.v]
        ELSE h2

\* The loop of normalize over walk(self, lambda q: q.subqueries,
\* event(exit|leaf)): every node below self is handed to the loop body after
\* its sub-queries (post-order), with its parent as path[-2]; the walk reads
\* each subqueries list as it goes, so it sees what the body wrote.
\* Visit is the walk of the subtree of `this`, followed by the loop body for
\* `this`; VisitChildren the walk over parent.subqueries[i..].
RECURSIVE Visit(_, _, _), VisitChildren(_, _, _)
Visit(h, this, parent) ==
    LoopBody(normalize_node(VisitChildren(h, this, 1), this), this, parent)
VisitChildren(h, parent, i) ==
    IF i > Len(Subqueries(h, parent)) THEN h
    ELSE VisitChildren(Visit(h, Subqueries(h, parent)[i], parent), parent, i + 1)

\* normalize without its shortcut for a node already marked normalized
NormalizeAgain(h, self) == normalize_node(VisitChildren(h, self, 1), self)

\* LuceneQuery.normalize: [h, v] with v the node returned (the flag returned
\* with it is used by no caller)
normalize(h, self) ==
    IF h.nodes[self].normalized THEN Ret(h, self)
    ELSE normalize_node(VisitChildren(h, self, 1), self)

(***************************************************************************)
(* Serialization.                                                          *)
(***************************************************************************)
\* the clauses serialize_term_queries builds for one key of the dict
KeyClauses(h, name, set) ==
    { IF name # None
      THEN name \o ":" \o to_query(KindOfKey(name), value)
      ELSE to_query(KindOfKey(name), value) : value \in h.sets[set] }

\* LuceneQuery.serialize_term_queries
serialize_term_queries(h, terms) ==
    Join(sorted(UNION {KeyClauses(h, name, terms[name]) : name \in DOMAIN terms}), " AND ")

\* LuceneQuery.range_query_templates[rel] % the rendered values
range_query_template(rel, v) ==
    CASE rel = "any"      -> "[* TO *]"
      [] rel = "lt"       -> "{* TO " \o v[1] \o "}"
      [] rel = "lte"      -> "[* TO " \o v[1] \o "]"
      [] rel = "gt"       -> "{" \o v[1] \o " TO *}"
      [] rel = "gte"      -> "[" \o v[1] \o " TO *]"
      [] rel = "rangeexc" -> "{" \o v[1] \o " TO " \o v[2] \o "}"
      [] rel = "range"    -> "[" \o v[1] \o " TO " \o v[2] \o "]"

\* the order of Python tuples of instances
RECURSIVE InstsLE(_, _)
InstsLE(a, b) ==
    IF a = << >> THEN TRUE
    ELSE IF b = << >> THEN FALSE
    ELSE IF Head(a) = Head(b) THEN InstsLE(Tail(a), Tail(b))
    ELSE InstLE(Head(a), Head(b))

\* the order of the tuples (name, rel, insts) of self.ranges
RangeLE(a, b) ==
    IF a.name # b.name THEN StrRank(a.name) <= StrRank(b.name)
    ELSE IF a.rel # b.rel THEN StrRank(a.rel) <= StrRank(b.rel)
    ELSE InstsLE(a.insts, b.insts)

\* sorted(self.ranges)
RECURSIVE sorted_ranges(_)
sorted_ranges(S) ==
    IF S = {} THEN << >>
    ELSE LET m == CHOOSE x \in S : \A y \in S : RangeLE(x, y)
         IN  <<m>> \o sorted_ranges(S \ {m})

\* sorted(values, key=lambda x: getattr(x, "value")) for a tuple of at most
\* two instances
SortedByValue(insts) ==
    IF Len(insts) = 2 /\ ~InstLE(insts[1], insts[2])
    THEN <<insts[2], insts[1]>> ELSE insts

\* one clause of serialize_range_queries
RangeClause(r) ==
    r.name \o ":" \o
    range_query_template(r.rel, [i \in DOMAIN r.insts |->
                                    to_query(KindOfKey(r.name), SortedByValue(r.insts)[i])])

\* LuceneQuery.serialize_range_queries
serialize_range_queries(h, self) ==
    LET rs == sorted_ranges(h.nodes[self].ranges)
    IN  Join([i \in DOMAIN rs |-> RangeClause(rs[i])], " AND ")

\* LuceneQuery.child_needs_parens
child_needs_parens(h, self, child) ==
    LET p == h.nodes[self]
        c == h.nodes[child]
    IN  IF len(h, child) = 1 THEN FALSE
        ELSE IF p._or THEN ~(c._or \/ Truthy(c._pow))
        ELSE IF p._and \/ p._not THEN ~(c._and \/ c._not \/ Truthy(c._pow))
        ELSE TRUE

\* [s for s in [...] if s]
NonEmpty(seq) == SelectSeq(seq, LAMBDA x : x # "")

\* reduce(operator.or_, qs) from qs[i] on, acc being the value so far
RECURSIVE ReduceOr(_, _, _, _)
ReduceOr(h, acc, qs, i) ==
    IF i > Len(qs) THEN Ret(h, acc)
    ELSE LET r == __or__(h, acc, qs[i])
         IN  CASE Evaluated(r) -> ReduceOr(r.h, r.v, qs, i + 1)

\* [self.Q(**kwargs)**boost_score for kwargs, boost_score in boosts[i..]];
\* BoostQuery is one element, q being what Q returned; BoostQueriesNext the
\* list, b being its first element
RECURSIVE BoostQueries(_, _, _), BoostQueriesNext(_, _, _)
BoostQuery(q, boost_score) == __pow__(q.h, q.v, boost_score)
BoostQueries(h, boosts, i) ==
    IF i > Len(boosts) THEN Ret(h, << >>)
    ELSE BoostQueriesNext(BoostQuery(Q(h, NoArgs, boosts[i].kwargs),
                                     boosts[i].boost_score), boosts, i)
\* the list built back to front
BoostQueriesReversed(b, boosts, i) ==
    LET rest == BoostQueries(b.h, boosts, i + 1)
    IN  CASE Evaluated(b) -> Ret(rest.h, rest.v \o <<b.v>>)
BoostQueriesNext(b, boosts, i) ==
    LET rest == BoostQueries(b.h, boosts, i + 1)
    IN  CASE Evaluated(b) -> Ret(rest.h, <<b.v>> \o rest.v)

\* the clauses of a node with its phrases put before its terms: what
\* OwnClauses is not
PhrasesFirst(h, self) ==
    NonEmpty(<< serialize_term_queries(h, h.nodes[self].phrases),
                serialize_term_queries(h, h.nodes[self].terms),
                serialize_range_queries(h, self) >>)

\* [s for s in [...] if s]: the term, phrase and range clauses of a node
OwnClauses(h, self) ==
    NonEmpty(<< serialize_term_queries(h, h.nodes[self].terms),
                serialize_term_queries(h, h.nodes[self].phrases),
                serialize_range_queries(h, self) >>)

\* the end of serialize_to_unicode: n is the node, u its clauses
JoinClauses(h, n, u, level, op) ==
    LET ret(v)   == [h |-> h, v |-> v,  err |-> ""]
        raise(e) == [h |-> h, v |-> "", err |-> e]
    IN  IF n._and THEN ret(Join(u, " AND "))
        ELSE IF n._or THEN ret(Join(u, " OR "))
        ELSE IF n._not
        THEN IF Len(u) # 1 THEN raise("AssertionError")
             ELSE IF level = 0 \/ (level = 1 /\ op = "AND")
             THEN ret("NOT " \o u[1])
             ELSE ret("(*:* AND NOT " \o u[1] \o ")")
        ELSE IF n._pow # Nothing
        THEN IF Len(u) # 1 THEN raise("AssertionError")
             ELSE ret(u[1] \o "^" \o ToString(n._pow[1]))
        ELSE raise("ValueError")

\* the else branch of serialize_to_unicode after its loop over the
\* sub-queries returned cs
SerializePlain(self, cs, level, op) ==
    IF cs.err # "" THEN [h |-> cs.h, v |-> "", err |-> cs.err]
    ELSE JoinClauses(cs.h, cs.h.nodes[self], OwnClauses(cs.h, self) \o cs.v, level, op)

\* LuceneQuery.serialize_to_unicode: [h, v, err], the heap after the call,
\* the string, and the exception raised ("" if none).
\*   SerializeChildren is its loop `for q in self.subqueries`, from
\*   subqueries[i] on, giving the clauses appended to u; ChildClause the loop
\*   after q.serialize_to_unicode returned c; SerializeBoosted its branch
\*   for a node with boosts, newself being the clone; SerializeNormalized
\*   the method after `self, _ = self.normalize()`.
RECURSIVE serialize_to_unicode(_, _, _, _), SerializeChildren(_, _, _, _),
          ChildClause(_, _, _, _, _), SerializeBoosted(_, _, _),
          SerializeOred(_, _, _), SerializeRewritten(_, _), SerializeNormalized(_, _, _)
ChildClause(c, paren, self, level, i) ==
    IF c.err # "" THEN [h |-> c.h, v |-> << >>, err |-> c.err]
    ELSE LET rest == SerializeChildren(c.h, self, level, i + 1)
         IN  [h   |-> rest.h,
              v   |-> <<IF paren THEN "(" \o c.v \o ")" ELSE c.v>> \o rest.v,
              err |-> rest.err]
SerializeChildren(h, self, level, i) ==
    IF i > Len(Subqueries(h, self)) THEN [h |-> h, v |-> << >>, err |-> ""]
    ELSE ChildClause(serialize_to_unicode(h, Subqueries(h, self)[i], level + 1,
                                          IF h.nodes[self]._or THEN "OR" ELSE "AND"),
                     child_needs_parens(h, self, Subqueries(h, self)[i]),
                     self, level, i)
SerializeRewritten(nn, level) == serialize_to_unicode(nn.h, nn.v, level, None)
SerializeOred(newself, ored, level) ==
    LET a == __and__(ored.h, newself, ored.v)
        o == __or__(a.h, newself, a.v)
    IN  SerializeRewritten(normalize(o.h, o.v), level)
SerializeBoosted(newself, bq, level) ==
    SerializeOred(newself, ReduceOr(bq.h, bq.v[1], bq.v, 2), level)
SerializeNormalized(nz, level, op) ==
    IF nz.h.nodes[nz.v].boosts # << >>
    THEN LET c == clone(nz.h, nz.v, << >>)
         IN  SerializeBoosted(c.v,
                 BoostQueries([c.h EXCEPT !.nodes[c.v].boosts = << >>],
                              nz.h.nodes[nz.v].boosts, 1), level)
    ELSE SerializePlain(nz.v, SerializeChildren(nz.h, nz.v, level, 1), level, op)
serialize_to_unicode(h, self, level, op) ==
    SerializeNormalized(IF h.nodes[self].normalized THEN Ret(h, self)
                        ELSE normalize(h, self), level, op)

\* LuceneQuery.__str__
__str__(h, self) == serialize_to_unicode(h, self, 0, None)

\* what LuceneQuery.options makes of the string s: [h, v, err] with v the
\* dict, a function from the option flag to the string
QueryOptions(option_flag, s) ==
    [h   |-> s.h,
     v   |-> IF s.v # "" THEN (option_flag :> s.v) ELSE << >>,
     err |-> s.err]

\* LuceneQuery.options
LuceneQuery_options(h, self) ==
    QueryOptions(h.nodes[self].option_flag, __str__(h, self))

(***************************************************************************)
(* The client of the query algebra: it builds one expression, `cur`, from  *)
(* Q(), &, |, ~ and **, a call at a time, and may convert it to a string   *)
(* at any point (which normalizes, writing to the objects it walks).       *)
(***************************************************************************)
Leaves == {"", "abc", "def"}        \* Q(), Q("abc"), Q("def")
Scores == {0, 2}                       \* the boost scores the client uses

LeafArgs(l) == IF l = "" THEN NoArgs ELSE [queries |-> << >>, values |-> <<StrV(l)>>]
Leaf(h, l) == Q(h, LeafArgs(l), NoKwargs)

Call(name, leaf, score) == [name |-> name, leaf |-> leaf, score |-> score]
NoResult == [v |-> "", err |-> ""]

InitClient(n) ==
    /\ heap = EmptyHeap
    /\ cur = 0
    /\ searches = << >>
    /\ call = Call("", "", 0)
    /\ out = NoResult
    /\ raised = ""
    /\ nops = 0
    /\ budget = n
    /\ dynamic_field_cache = << >>
    /\ threads = << >>

InitQuery == InitClient(MaxOps)
InitNorm == InitClient(MaxNormOps)

\* the client's expression becomes r.v, in the heap r.h
Built(r, c) ==
    /\ heap' = r.h
    /\ cur' = r.v
    /\ call' = c
    /\ nops' = nops + 1
    /\ UNCHANGED <<searches, out, raised, budget, resolver>>

\* cur = Q(l)
Start(l) ==
    /\ cur = 0 /\ nops < budget
    /\ Built(Leaf(heap, l), Call("Q", l, 0))

\* c & q.v, q.v & c, c | q.v, q.v | c for the query q.v just made
CurAnd(q, c) == __and__(q.h, c, q.v)
AndCur(q, c) == __and__(q.h, q.v, c)
CurOr(q, c) == __or__(q.h, c, q.v)
OrCur(q, c) == __or__(q.h, q.v, c)

\* cur = cur & Q(l)
AndRight(l) ==
    /\ cur # 0 /\ nops < budget
    /\ Built(CurAnd(Leaf(heap, l), cur), Call("and_right", l, 0))

\* cur = Q(l) & cur
AndLeft(l) ==
    /\ cur # 0 /\ nops < budget
    /\ Built(AndCur(Leaf(heap, l), cur), Call("and_left", l, 0))

\* cur = cur | Q(l)
OrRight(l) ==
    /\ cur # 0 /\ nops < budget
    /\ Built(CurOr(Leaf(heap, l), cur), Call("or_right", l, 0))

\* cur = Q(l) | cur
OrLeft(l) ==
    /\ cur # 0 /\ nops < budget
    /\ Built(OrCur(Leaf(heap, l), cur), Call("or_left", l, 0))

\* cur = Q(cur)
Wrap ==
    /\ cur # 0 /\ nops < budget
    /\ Built(Q(heap, [queries |-> <<cur>>, values |-> << >>], NoKwargs), Call("wrap", "", 0))

\* cur = ~cur
Not ==
    /\ cur # 0 /\ nops < budget
    /\ Built(__invert__(heap, cur), Call("not", "", 0))

\* cur = cur ** score
Pow(score) ==
    /\ cur # 0 /\ nops < budget
    /\ Built(__pow__(heap, cur, score), Call("pow", "", score))

\* the client has the string, or the exception, r
Returned(r) ==
    /\ heap' = r.h
    /\ out' = [v |-> r.v, err |-> r.err]
    /\ raised' = r.err

\* str(cur)
Str ==
    /\ cur # 0 /\ nops < budget
    /\ Returned(__str__(heap, cur))
    /\ call' = Call("str", "", 0)
    /\ nops' = nops + 1
    /\ UNCHANGED <<cur, searches, budget, resolver>>

NextQuery ==
    \/ \E l \in Leaves : Start(l)
    \/ \E l \in Leaves : AndRight(l)
    \/ \E l \in Leaves : AndLeft(l)
    \/ \E l \in Leaves : OrRight(l)
    \/ \E l \in Leaves : OrLeft(l)
    \/ Wrap
    \/ Not
    \/ \E score \in Scores : Pow(score)
    \/ Str

SpecQuery == InitQuery /\ [][NextQuery]_vars
SpecNorm == InitNorm /\ [][NextQuery]_vars

(***************************************************************************)
(* Properties of the query algebra.  They speak of the client's           *)
(* expression `cur` in every state it can be in.                           *)
(***************************************************************************)
\* str(q) as the client sees it: the string and the exception
StrOf(h, q) == [v |-> __str__(h, q).v, err |-> __str__(h, q).err]

\* the nodes of the tree under q, each with its nesting level and its parent
\* (0 for the root)
RECURSIVE Positions(_, _, _, _)
Positions(h, q, level, parent) ==
    {[n |-> q, level |-> level, parent |-> parent]}
    \cup UNION {Positions(h, Subqueries(h, q)[i], level + 1, q) :
                    i \in DOMAIN Subqueries(h, q)}

\* the normalized tree of the client's expression
NormalizedCur == normalize(heap, cur)
NormalizedPositions == Positions(NormalizedCur.h, NormalizedCur.v, 0, 0)

\* C4: normalization is idempotent: normalizing the result of normalize()
\* again gives a tree that serializes as the first result does.
C4_NormalizeIdempotent ==
    cur # 0 =>
        LET n1 == normalize(heap, cur)
            n2 == normalize(n1.h, n1.v)
        IN  StrOf(n2.h, n2.v) = StrOf(n1.h, n1.v)

\* an expression whose normalization cancels a double NOT over an OR
C4_Witness ==
    /\ cur # 0
    /\ heap.nodes[cur]._not
    /\ NormalizedCur.v # cur
    /\ StrOf(heap, cur) = [v |-> "(abc OR def)", err |-> ""]

\* C5: after normalize() no AND node has an AND child and no OR node has an
\* OR child, anywhere in the tree.
C5_FlatteningComplete ==
    cur # 0 =>
        \A p \in NormalizedPositions :
            p.parent # 0 =>
                LET c == NormalizedCur.h.nodes[p.n]
                    q == NormalizedCur.h.nodes[p.parent]
                IN  ~(c._and /\ q._and) /\ ~(c._or /\ q._or)

\* q without the wrappers around it: an AND or OR node with no clause of its
\* own and exactly one non-empty sub-query stands for that sub-query
RECURSIVE Unwrapped(_, _)
Unwrapped(h, q) ==
    LET n    == h.nodes[q]
        live == SelectSeq(Subqueries(h, q), LAMBDA x : bool(h, x))
    IN  IF (n._and \/ n._or) /\ DOMAIN n.terms = {} /\ DOMAIN n.phrases = {}
           /\ n.ranges = {} /\ Len(live) = 1
        THEN Unwrapped(h, live[1])
        ELSE q

IsNot(h, q) == h.nodes[q]._not /\ Len(Subqueries(h, q)) = 1

\* C7: double negation cancels: NOT over NOT over Q, with or without
\* wrappers and empty queries between the two NOTs, serializes as Q does
\* (so n NOTs give Q for even n and NOT Q for odd n).
C7_DoubleNegation ==
    (cur # 0 /\ IsNot(heap, cur)) =>
        LET inner == Unwrapped(heap, Subqueries(heap, cur)[1])
        IN  IsNot(heap, inner) =>
                LET q == Subqueries(heap, inner)[1]
                IN  (StrOf(heap, q).err = "" /\ StrOf(heap, q).v # "")
                        => StrOf(heap, cur) = StrOf(heap, q)

\* C8: ANDing or ORing an empty query with a non-empty query X serializes
\* exactly as X.
C8_EmptyElision ==
    [][ ( /\ call'.name \in {"and_right", "and_left", "or_right", "or_left"}
          /\ call'.leaf = ""
          /\ cur # 0
          /\ StrOf(heap, cur).err = ""
          /\ StrOf(heap, cur).v # "" )
        => StrOf(heap', cur') = StrOf(heap, cur) ]_vars

\* the operator the serializer names to the child of p
OpFor(h, p) == IF p = 0 THEN None ELSE IF h.nodes[p]._or THEN "OR" ELSE "AND"

\* C9: in the normalized tree a NOT node is rendered bare, 'NOT <clause>',
\* only as the root or as a direct child of a top-level AND node, and as
\* '(*:* AND NOT <clause>)' everywhere else.
C9_NotPlacement ==
    cur # 0 =>
        \A p \in NormalizedPositions :
            LET h == NormalizedCur.h
                r == serialize_to_unicode(h, p.n, p.level, OpFor(h, p.parent))
                u == SerializeChildren(h, p.n, p.level, 1).v
                top == p.parent = 0 \/ (p.level = 1 /\ h.nodes[p.parent]._and)
            IN  (IsNot(h, p.n) /\ r.err = "") =>
                    r.v = IF top THEN "NOT " \o u[1]
                          ELSE "(*:* AND NOT " \o u[1] \o ")"

\* C10: an AND or OR child holding two or more clauses, under a parent with
\* a different combinator (AND under OR, OR under AND, either under NOT or
\* under a boost), is wrapped in parentheses.
C10_ParensPreserveTree ==
    cur # 0 =>
        \A p \in NormalizedPositions :
            p.parent # 0 =>
                LET h == NormalizedCur.h
                    c == h.nodes[p.n]
                    q == h.nodes[p.parent]
                IN  ( /\ c._and \/ c._or
                      /\ len(h, p.n) >= 2
                      /\ \/ q._and /\ c._or
                         \/ q._or /\ c._and
                         \/ q._not
                         \/ q._pow # Nothing )
                    => child_needs_parens(h, p.parent, p.n)

(***************************************************************************)
(* The client regrouping three term queries: it makes A, B and C, combines *)
(* them as (A op B) op C and as A op (B op C), for AND also as one query   *)
(* holding all three, and converts each to a string.                       *)
(***************************************************************************)
\* the term queries: positional words and keyword terms, [word, field, value]
Term(word, field, value) == [word |-> word, field |-> field, value |-> value]
TermQueries ==
    { Term("abc", "", StrV("")), Term("def", "", StrV("")), Term("xyz", "", StrV("")),
      Term("", "string_field", StrV("abc")), Term("", "short_field", IntV(3)) }

TermValues(t) == IF t.word = "" THEN << >> ELSE <<StrV(t.word)>>
TermItems(t) == IF t.word = "" THEN <<KwArg(<<t.field>>, t.value)>> ELSE << >>

\* Q(word) or Q(field=value)
TermQ(h, t) ==
    Q(h, [queries |-> << >>, values |-> TermValues(t)],
         [top |-> None, items |-> TermItems(t)])

\* a keyword given twice is one keyword
RECURSIVE Distinct(_)
Distinct(seq) ==
    IF seq = << >> THEN << >>
    ELSE <<Head(seq)>> \o SelectSeq(Distinct(Tail(seq)), LAMBDA x : x # Head(seq))

\* Q(...) holding the three terms
SingleQ(h, ta, tb, tc) ==
    Q(h, [queries |-> << >>, values |-> TermValues(ta) \o TermValues(tb) \o TermValues(tc)],
         [top |-> None, items |-> Distinct(TermItems(ta) \o TermItems(tb) \o TermItems(tc))])

\* the clause a term query serializes to
ClauseOf(t) ==
    IF t.word # "" THEN escape_for_lqs_term(t.word)
    ELSE t.field \o ":" \o to_query(KindOfKey(t.field), t.value)

\* the client's record of a conversion
Shown(s) == [v |-> s.v, err |-> s.err]

\* (A & B) & C, A & (B & C), Q(A, B, C) and their strings
AssocAnd(ta, tb, tc) ==
    /\ nops < budget
    /\ \E a \in {TermQ(heap, ta)} : \E b \in {TermQ(a.h, tb)} : \E c \in {TermQ(b.h, tc)} :
       \E single \in {SingleQ(c.h, ta, tb, tc)} :
       \E l1 \in {__and__(single.h, a.v, b.v)} : \E left \in {__and__(l1.h, l1.v, c.v)} :
       \E r1 \in {__and__(left.h, b.v, c.v)} : \E right \in {__and__(r1.h, a.v, r1.v)} :
       \E s1 \in {__str__(right.h, left.v)} : \E s2 \in {__str__(s1.h, right.v)} :
       \E s3 \in {__str__(s2.h, single.v)} :
          /\ heap' = s3.h
          /\ out' = [left |-> Shown(s1), right |-> Shown(s2), single |-> Shown(s3)]
    /\ call' = [name |-> "and", a |-> ta, b |-> tb, c |-> tc]
    /\ nops' = nops + 1
    /\ UNCHANGED <<cur, searches, raised, budget, resolver>>

\* (A | B) | C, A | (B | C) and their strings
AssocOr(ta, tb, tc) ==
    /\ nops < budget
    /\ \E a \in {TermQ(heap, ta)} : \E b \in {TermQ(a.h, tb)} : \E c \in {TermQ(b.h, tc)} :
       \E l1 \in {__or__(c.h, a.v, b.v)} : \E left \in {__or__(l1.h, l1.v, c.v)} :
       \E r1 \in {__or__(left.h, b.v, c.v)} : \E right \in {__or__(r1.h, a.v, r1.v)} :
       \E s1 \in {__str__(right.h, left.v)} : \E s2 \in {__str__(s1.h, right.v)} :
          /\ heap' = s2.h
          /\ out' = [left |-> Shown(s1), right |-> Shown(s2)]
    /\ call' = [name |-> "or", a |-> ta, b |-> tb, c |-> tc]
    /\ nops' = nops + 1
    /\ UNCHANGED <<cur, searches, raised, budget, resolver>>

InitAssoc == InitClient(1)

NextAssoc ==
    \/ \E ta, tb, tc \in TermQueries : AssocAnd(ta, tb, tc)
    \/ \E ta, tb, tc \in TermQueries : AssocOr(ta, tb, tc)

SpecAssoc == InitAssoc /\ [][NextAssoc]_vars

\* the clauses of the three terms, in the order given
Clauses3 == <<ClauseOf(call.a), ClauseOf(call.b), ClauseOf(call.c)>>
Str3(str) == [v |-> str, err |-> ""]

\* C6 as amended: grouping does not affect the output.  For AND the three
\* forms serialize to the same string, the distinct clauses on one level in
\* lexicographic order; for OR the two groupings serialize to the same
\* string, the clauses on one level in the order of the operands.
C6_GroupingIrrelevant ==
    /\ call.name = "and" =>
          /\ out.left = Str3(Join(sorted(Range(Clauses3)), " AND "))
          /\ out.right = out.left
          /\ out.single = out.left
    /\ call.name = "or" =>
          /\ out.left = Str3(Join(Clauses3, " OR "))
          /\ out.right = out.left

\* operands given out of order: AND sorts them, OR keeps them as given
C6_Witness ==
    /\ call.name = "or"
    /\ Clauses3 = <<"xyz", "string_field:abc", "abc">>
    /\ out.left = Str3("xyz OR string_field:abc OR abc")
    /\ out.right = out.left

\* C6: for distinct term queries A, B and C grouping does not affect the
\* output, and all clauses are on one level in lexicographic order, for AND
\* and likewise for OR.
C6_LexicographicBoth ==
    (call.name \in {"and", "or"} /\ Cardinality(Range(Clauses3)) = 3) =>
        /\ out.left = Str3(Join(sorted(Range(Clauses3)),
                              IF call.name = "and" THEN " AND " ELSE " OR "))
        /\ out.right = out.left

(***************************************************************************)
(* Searches.  A SolrSearch is [query_obj, filters, faceter, highlighter]:  *)
(* the main query object, the list of filter query objects, and the        *)
(* `fields` dictionaries of its FacetOptions and HighlightOptions, from a  *)
(* field name (None for the global options) to a dict object of the heap.  *)
(* The other option modules are never updated here and contribute no       *)
(* options.                                                                *)
(***************************************************************************)
\* an option value that is a list of strings
ListV(l) == [t |-> "list", l |-> l]

\* the `opts` tables of FacetOptions, HighlightOptions and
\* MoreLikeThisOptions, as far as used
Options_opts ==
    [ facet |-> [limit |-> "int", missing |-> "bool"],
      hl    |-> [snippets |-> "int", usePhraseHighlighter |-> "bool"],
      mlt   |-> [count |-> "int", boost |-> "bool"] ]

\* SolrSearch.__init__ with original=None
SolrSearch(q) ==
    [query_obj |-> q, filters |-> << >>, faceter |-> << >>, highlighter |-> << >>,
     paginator |-> [start |-> Nothing, rows |-> Nothing],
     field_limiter |-> [fields |-> {}, score |-> FALSE, all_fields |-> FALSE],
     more_like_this |-> [fields |-> {}, query_fields |-> << >>, kwargs |-> << >>],
     facet_ranger |-> << >>, sorter |-> << >>, extra |-> << >>]

\* FilterOptions.__init__ with an original: copy.copy(f) of each filter is
\* a new object with the attributes of f, so with the same list and sets
RECURSIVE CopyFilters(_, _)
CopyFilters(h, filters) ==
    IF filters = << >> THEN Ret(h, << >>)
    ELSE LET f    == NewNode(h, h.nodes[Head(filters)])
             rest == CopyFilters(f.h, Tail(filters))
         IN  Ret(rest.h, <<f.v>> \o rest.v)

\* SolrSearch.__init__ with an original: each option module is cloned.  The
\* copy.copy of an Options.fields is a new dictionary of the same dicts.
SolrSearchFrom(h, original) ==
    LET q == clone(h, original.query_obj, << >>)
        f == CopyFilters(q.h, original.filters)
    IN  Ret(f.h, [original EXCEPT !.query_obj = q.v, !.filters = f.v])

\* Options.check_opts: the exception it raises ("" if none).  The option
\* values of the client are integers and booleans, which int() and bool()
\* accept.
RECURSIVE check_opts(_, _)
check_opts(option_name, kwargs) ==
    IF kwargs = << >> THEN ""
    ELSE IF Head(kwargs).k \notin DOMAIN Options_opts[option_name] THEN "SolrError"
    ELSE check_opts(option_name, Tail(kwargs))

\* the value check_opts stores for the keyword kw
CheckedValue(option_name, kw) ==
    LET opt_type == Options_opts[option_name][kw.k]
    IN  IF opt_type = "int"
        THEN (IF kw.v.t = "int" THEN kw.v ELSE IntV(IF kw.v.b THEN 1 ELSE 0))
        ELSE BoolV(IF kw.v.t = "int" THEN kw.v.n # 0 ELSE kw.v.b)

\* self.fields[field] of a defaultdict(dict): a missing key gets a new dict
FieldDict(r, field) ==
    IF field \in DOMAIN r.v THEN r
    ELSE LET d == NewDict(r.h, << >>)
         IN  Ret(d.h, r.v @@ (field :> d.v))

\* the loop of update over checked_kwargs, for the one field of `fields`:
\* self.fields[field][k] = v writes to the dict object
RECURSIVE UpdateLoop(_, _, _, _)
UpdateLoop(r, option_name, field, kwargs) ==
    IF kwargs = << >> THEN r
    ELSE LET fd == FieldDict(r, field)
             kw == Head(kwargs)
         IN  UpdateLoop(Ret([fd.h EXCEPT !.dicts[fd.v[field]] =
                                (kw.k :> CheckedValue(option_name, kw)) @@ @], fd.v),
                        option_name, field, Tail(kwargs))

\* Options.update(fields, **kwargs) on the dictionary self_fields, `fields`
\* being a field name or None: [h, v, err], v the dictionary afterwards
update(h, option_name, self_fields, fields, kwargs) ==
    IF fields # None /\ ~HasField(fields)
    THEN [h |-> h, v |-> self_fields, err |-> "SolrError"]
    ELSE LET r == IF fields # None THEN FieldDict(Ret(h, self_fields), fields)
                  ELSE Ret(h, self_fields)
         IN  IF check_opts(option_name, kwargs) # ""
             THEN [h |-> r.h, v |-> r.v, err |-> check_opts(option_name, kwargs)]
             ELSE LET u == UpdateLoop(r, option_name, fields, kwargs)
                  IN  [h |-> u.h, v |-> u.v, err |-> ""]

\* a dictionary as a function, from its set of [k, v] items
DictOf(items) ==
    [k \in {i.k : i \in items} |-> (CHOOSE i \in items : i.k = k).v]

\* FacetOptions / HighlightOptions.field_names_in_opts
field_names_in_opts(option_name, fields) ==
    IF fields = {} THEN {}
    ELSE IF option_name = "facet"
    THEN {[k |-> "facet.field", v |-> ListV(sorted(fields))]}
    ELSE {[k |-> "hl.fl", v |-> StrV(Join(sorted(fields), ","))]}

\* Options.options
Options_options(h, option_name, self_fields) ==
    DictOf(
        (IF DOMAIN self_fields # {} THEN {[k |-> option_name, v |-> BoolV(TRUE)]} ELSE {})
        \cup field_names_in_opts(option_name, DOMAIN self_fields \ {None})
        \cup UNION { { [k |-> (IF f = None THEN option_name \o "." \o o
                               ELSE "f." \o f \o "." \o option_name \o "." \o o),
                        v |-> h.dicts[self_fields[f]][o]]
                       : o \in DOMAIN h.dicts[self_fields[f]] }
                     : f \in DOMAIN self_fields })

\* FilterOptions.options: the list [f.options()[None] for f in self.filters];
\* FilterNext is the rest of the list after f.options() returned o
RECURSIVE FilterStrings(_, _), FilterNext(_, _), FilterCons(_, _)
FilterStrings(h, filters) ==
    IF filters = << >> THEN [h |-> h, v |-> << >>, err |-> ""]
    ELSE FilterNext(LuceneQuery_options(h, Head(filters)), Tail(filters))
FilterNext(o, filters) ==
    IF o.err # "" THEN [h |-> o.h, v |-> << >>, err |-> o.err]
    ELSE IF None \notin DOMAIN o.v THEN [h |-> o.h, v |-> << >>, err |-> "KeyError"]
    ELSE FilterCons(o.v[None], FilterStrings(o.h, filters))
FilterCons(str, r) == [r EXCEPT !.v = <<str>> \o @]

FilterOptions_options(r) ==
    [r EXCEPT !.v = IF r.v = << >> THEN << >> ELSE ("fq" :> ListV(r.v))]

\* FieldLimitOptions.options: [v, opts], v the object afterwards; without
\* all_fields, `fields` is the set of the object itself, which add() changes
FieldLimitOptions_options(self) ==
    LET fields == IF self.all_fields THEN {"*"} ELSE self.fields
        scored == IF self.score THEN fields \cup {"score"} ELSE fields
    IN  [v    |-> IF self.all_fields THEN self ELSE [self EXCEPT !.fields = scored],
         opts |-> IF scored # {} THEN "fl" :> StrV(Join(sorted(scored), ","))
                  ELSE << >>]

\* PaginateOptions.options: start and rows are Nothing for None
PaginateOptions_options(self) ==
    (IF self.start # Nothing THEN "start" :> IntV(self.start[1]) ELSE << >>)
    @@ (IF self.rows # Nothing THEN "rows" :> IntV(self.rows[1]) ELSE << >>)

\* float(value), of the values of the model: a number, or a string, which
\* is a numeral or raises ValueError
float(value) ==
    CASE value.t = "float" -> Ok(value)
      [] value.t = "str" /\ Len(value.s) > 0 /\ SubSeq(value.s, 1, 1) = "." -> Fail("ValueError")
      [] OTHER -> IF int(value).ok
                  THEN Ok(FloatV(int(value).v.b, int(value).v.mag, FALSE))
                  ELSE Fail("ValueError")
\* str(f) of a float
float_str(f) ==
    (IF f.b /\ (f.mag # << >> \/ f.half) THEN "-" ELSE "")
        \o (IF f.mag = << >> THEN "0" ELSE Decimal(f.mag))
        \o (IF f.half THEN ".5" ELSE ".0")

\* None as a value
NoneV == [t |-> "None", s |-> "", n |-> 0, b |-> FALSE]

\* MoreLikeThisOptions.options: self.fields is a set, self.query_fields a
\* dictionary, held as the list of its [k, v] items in insertion order
MoreLikeThisOptions_options(self) ==
    (IF self.fields # {}
     THEN ("mlt" :> BoolV(TRUE)) @@ ("mlt.fl" :> StrV(Join(sorted(self.fields), ",")))
     ELSE << >>)
    @@ (IF self.query_fields # << >>
        THEN "mlt.qf" :> StrV(Join([i \in DOMAIN self.query_fields |->
                 IF self.query_fields[i].v = NoneV THEN self.query_fields[i].k
                 ELSE self.query_fields[i].k \o "^"
                         \o float_str(float(self.query_fields[i].v).v)], " "))
        ELSE << >>)
    @@ DictOf({[k |-> "mlt." \o o, v |-> self.kwargs[o]] : o \in DOMAIN self.kwargs})

\* FacetRangeOptions.options, self_fields the dictionary as the list of its
\* [field, opts] items in insertion order
FacetRangeOptions_options(self_fields) ==
    IF self_fields = << >> THEN << >>
    ELSE DictOf(
        {[k |-> "facet", v |-> BoolV(TRUE)],
         [k |-> "facet.range", v |-> ListV([i \in DOMAIN self_fields |-> self_fields[i].field])]}
        \cup UNION { { [k |-> "f." \o self_fields[i].field \o ".facet.range." \o o,
                        v |-> self_fields[i].opts[o]]
                       : o \in DOMAIN self_fields[i].opts }
                     : i \in DOMAIN self_fields })

\* SortOptions.options, self_fields the list of [order, field] pairs
SortOptions_options(self_fields) ==
    IF self_fields # << >>
    THEN "sort" :> StrV(Join([i \in DOMAIN self_fields |->
                                 self_fields[i][2] \o " " \o self_fields[i][1]], ", "))
    ELSE << >>

\* the options of the modules without the default q: what OptionsMerge is not
OptionsMergeOnly(h, self, q, f) ==
    self.extra @@ FieldLimitOptions_options(self.field_limiter).opts
               @@ SortOptions_options(self.sorter)
               @@ FacetRangeOptions_options(self.facet_ranger)
               @@ Options_options(h, "facet", self.faceter)
               @@ Options_options(h, "hl", self.highlighter)
               @@ MoreLikeThisOptions_options(self.more_like_this)
               @@ PaginateOptions_options(self.paginator)
               @@ f @@ [k \in DOMAIN q |-> StrV(q[k])]

\* SolrSearch.options: the options of the modules in the order of
\* option_modules, a later module's value replacing an earlier one's (the
\* extra options come last), and the default q.  [h, v, err], v the
\* dictionary.
OptionsMerge(h, self, q, f) ==
    LET options == self.extra
                   @@ FieldLimitOptions_options(self.field_limiter).opts
                   @@ SortOptions_options(self.sorter)
                   @@ FacetRangeOptions_options(self.facet_ranger)
                   @@ Options_options(h, "facet", self.faceter)
                   @@ Options_options(h, "hl", self.highlighter)
                   @@ MoreLikeThisOptions_options(self.more_like_this)
                   @@ PaginateOptions_options(self.paginator)
                   @@ f @@ [k \in DOMAIN q |-> StrV(q[k])]
    IN  IF "q" \in DOMAIN options THEN options ELSE options @@ ("q" :> StrV("*:*"))
OptionsFilters(self, q, f) ==
    IF f.err # "" THEN [h |-> f.h, v |-> << >>, err |-> f.err]
    ELSE [h |-> f.h, v |-> OptionsMerge(f.h, self, q, f.v), err |-> ""]
OptionsQuery(self, q) ==
    IF q.err # "" THEN q
    ELSE OptionsFilters(self, q.v, FilterOptions_options(FilterStrings(q.h, self.filters)))
SolrSearch_options(h, self) == OptionsQuery(self, LuceneQuery_options(h, self.query_obj))

(***************************************************************************)
(* The client of the search builder: it starts from SolrSearch(interface), *)
(* calls a builder on any search it holds, keeping the search returned,    *)
(* and may read the options of any search it holds.                        *)
(***************************************************************************)
\* arguments of query(), filter(), exclude(): [sub, values, items], sub the
\* word of a Q(word) passed first ("" for none), the other positional
\* values, and the keywords
In(sub, values, items) == [sub |-> sub, values |-> values, items |-> items]

GoodInputs ==
    { In("", <<StrV("abc")>>, << >>),
      In("", <<StrV("def")>>, << >>),
      In("", << >>, <<KwArg(<<"string_field">>, StrV("abc"))>>),
      In("def", << >>, << >>) }

\* each fails at its keyword, after a valid term or sub-query
BadInputs ==
    { In("", <<StrV("def")>>, <<KwArg(<<"nofield">>, IntV(3))>>),
      In("", <<StrV("def")>>, <<KwArg(<<"stored_field">>, StrV("abc"))>>),
      In("", <<StrV("def")>>, <<KwArg(<<"short_field">>, IntV(32768))>>),
      In("", <<StrV("def")>>, <<KwArg(<<"short_field", "range">>, IntV(3))>>),
      In("def", << >>, <<KwArg(<<"short_field">>, IntV(32768))>>) }

QueryInputs == GoodInputs \cup BadInputs
FilterInputs ==
    { In("", <<StrV("abc")>>, << >>),
      In("", << >>, <<KwArg(<<"string_field">>, StrV("abc"))>>),
      In("", <<StrV("def")>>, <<KwArg(<<"short_field">>, IntV(32768))>>) }
ExcludeInputs ==
    { In("", <<StrV("abc")>>, << >>),
      In("", << >>, <<KwArg(<<"nofield">>, IntV(3))>>) }
BoostInputs ==
    { <<KwArg(<<"string_field">>, StrV("abc"))>>,
      <<KwArg(<<"short_field">>, IntV(32768))>> }

\* arguments of facet_by() and highlight(): the field (None for the global
\* options) and the keywords
OptIn(field, k, v) == [field |-> field, kwargs |-> <<[k |-> k, v |-> v]>>]
FacetInputs ==
    { OptIn(f, "limit", IntV(n)) : f \in {None, "string_field"}, n \in {1, 2} }
    \cup { OptIn("nofield", "limit", IntV(1)), OptIn("string_field", "bogus", IntV(1)) }
HighlightInputs ==
    { OptIn(f, "snippets", IntV(n)) : f \in {None, "string_field"}, n \in {1, 2} }
    \cup { OptIn("string_field", "bogus", IntV(1)) }

InitSearch ==
    /\ \E q \in {LuceneQuery(EmptyHeap, "q")} :
          /\ heap = q.h
          /\ searches = <<SolrSearch(q.v)>>
    /\ cur = 0
    /\ call = [name |-> "", on |-> 0, field |-> ""]
    /\ out = NoResult
    /\ raised = ""
    /\ nops = 0
    /\ budget = MaxSearchOps
    /\ dynamic_field_cache = << >>
    /\ threads = << >>

\* the sub-query of the input, made by self.Q: [h, v], v the list of the
\* LuceneQuery arguments
SubQuery(h, input) ==
    IF input.sub = "" THEN Ret(h, << >>)
    ELSE LET q == Leaf(h, input.sub) IN Ret(q.h, <<q.v>>)

\* the builder called on search i returned newself, or raised err
Builder(name, i, field, h, newself, err) ==
    /\ heap' = h
    /\ searches' = IF err = "" THEN Append(searches, newself) ELSE searches
    /\ raised' = err
    /\ call' = [name |-> name, on |-> i, field |-> field]
    /\ out' = NoResult
    /\ nops' = nops + 1
    /\ UNCHANGED <<cur, budget, resolver>>

\* searches[i].query(*args, **kwargs)
Query(i, input) ==
    /\ nops < budget
    /\ \E sub \in {SubQuery(heap, input)} :
       \E newself \in {SolrSearchFrom(sub.h, searches[i])} :
       \E r \in {add(newself.h, newself.v.query_obj,
                     [queries |-> sub.v, values |-> input.values],
                     [top |-> None, items |-> input.items])} :
          Builder("query", i, "", r.h, newself.v, r.v)

\* searches[i].exclude(*args, **kwargs): query(~self.Q(*args, **kwargs))
Exclude(i, input) ==
    /\ nops < budget
    /\ \E q \in {Q(heap, [queries |-> << >>, values |-> input.values],
                         [top |-> None, items |-> input.items])} :
          IF q.err # "" THEN Builder("exclude", i, "", q.h, searches[i], q.err)
          ELSE \E n \in {__invert__(q.h, q.v)} :
               \E newself \in {SolrSearchFrom(n.h, searches[i])} :
               \E r \in {add(newself.h, newself.v.query_obj,
                             [queries |-> <<n.v>>, values |-> << >>], NoKwargs)} :
                  Builder("exclude", i, "", r.h, newself.v, r.v)

\* searches[i].boost_relevancy(boost_score, **kwargs)
BoostRelevancy(i, boost_score, items) ==
    /\ nops < budget
    /\ IF ~bool(heap, searches[i].query_obj)
       THEN Builder("boost_relevancy", i, "", heap, searches[i], "TypeError")
       ELSE \E newself \in {SolrSearchFrom(heap, searches[i])} :
            \E r \in {add_boost(newself.h, newself.v.query_obj,
                                [top |-> None, items |-> items], boost_score)} :
               Builder("boost_relevancy", i, "", r.h, newself.v, r.v)

\* searches[i].filter(*args, **kwargs): FilterOptions.add makes a new
\* LuceneQuery, adds to it and appends it to the filters
Filter(i, input) ==
    /\ nops < budget
    /\ \E sub \in {SubQuery(heap, input)} :
       \E newself \in {SolrSearchFrom(sub.h, searches[i])} :
       \E fq_filter \in {LuceneQuery(newself.h, None)} :
       \E r \in {add(fq_filter.h, fq_filter.v,
                     [queries |-> sub.v, values |-> input.values],
                     [top |-> None, items |-> input.items])} :
          Builder("filter", i, "", r.h,
                  [newself.v EXCEPT !.filters = Append(@, fq_filter.v)], r.v)

\* searches[i].facet_by(field, **kwargs)
FacetBy(i, input) ==
    /\ nops < budget
    /\ \E newself \in {SolrSearchFrom(heap, searches[i])} :
       \E r \in {update(newself.h, "facet", newself.v.faceter, input.field, input.kwargs)} :
          Builder("facet_by", i, input.field, r.h, [newself.v EXCEPT !.faceter = r.v], r.err)

\* searches[i].highlight(fields, **kwargs)
Highlight(i, input) ==
    /\ nops < budget
    /\ \E newself \in {SolrSearchFrom(heap, searches[i])} :
       \E r \in {update(newself.h, "hl", newself.v.highlighter, input.field, input.kwargs)} :
          Builder("highlight", i, input.field, r.h, [newself.v EXCEPT !.highlighter = r.v], r.err)

\* searches[i].options(); the modules' options are read in the order of
\* option_modules, so the field limiter's only if the query's and the
\* filters' did not raise
ReadOptions(i) ==
    /\ nops < budget
    /\ \E r \in {SolrSearch_options(heap, searches[i])} :
          /\ heap' = r.h
          /\ out' = [v |-> r.v, err |-> r.err]
          /\ raised' = r.err
          /\ searches' = IF r.err # "" THEN searches
                         ELSE [searches EXCEPT ![i].field_limiter =
                                  FieldLimitOptions_options(@).v]
    /\ call' = [name |-> "options", on |-> i, field |-> ""]
    /\ nops' = nops + 1
    /\ UNCHANGED <<cur, budget, resolver>>

NextSearch ==
    \/ \E i \in DOMAIN searches, input \in QueryInputs : Query(i, input)
    \/ \E i \in DOMAIN searches, input \in ExcludeInputs : Exclude(i, input)
    \/ \E i \in DOMAIN searches, items \in BoostInputs : BoostRelevancy(i, 2, items)
    \/ \E i \in DOMAIN searches, input \in FilterInputs : Filter(i, input)
    \/ \E i \in DOMAIN searches, input \in FacetInputs : FacetBy(i, input)
    \/ \E i \in DOMAIN searches, input \in HighlightInputs : Highlight(i, input)
    \/ \E i \in DOMAIN searches : ReadOptions(i)

SpecSearch == InitSearch /\ [][NextSearch]_vars

\* what s.options() returns, or raises, in the heap h
OptionsIn(h, s) ==
    LET r == SolrSearch_options(h, s) IN [v |-> r.v, err |-> r.err]

\* the step is a call of one of `names` on a search, which returned / raised
Returns(names) == nops' = nops + 1 /\ call'.name \in names /\ raised' = ""
Raises(names) == nops' = nops + 1 /\ call'.name \in names /\ raised' # ""

\* the search the step's call was made on
Receiver == searches[call'.on]

\* C1: query(), filter(), exclude() and boost_relevancy() on a search s
\* return a new object and leave s.options() exactly as it was before the
\* call, whatever builder calls s was reached by.
C1_CopyOnWrite ==
    [][ Returns({"query", "filter", "exclude", "boost_relevancy"}) =>
            /\ Len(searches') = Len(searches) + 1
            /\ \A j \in DOMAIN searches : searches'[j] = searches[j]
            /\ OptionsIn(heap', Receiver) = OptionsIn(heap, Receiver) ]_vars

\* the step's facet_by() / highlight() sets an option for a field, or a
\* global option, for which the receiver already carries options
SameBlock ==
    \/ call'.name = "facet_by" /\ call'.field \in DOMAIN Receiver.faceter
    \/ call'.name = "highlight" /\ call'.field \in DOMAIN Receiver.highlighter

\* C2: a facet_by() / highlight() call on a search s1 that already carries
\* options for the same field, or the same global option, returns a new
\* search and leaves s1.options() unchanged.
C2_SnapshotPreserving ==
    [][ (Returns({"facet_by", "highlight"}) /\ SameBlock) =>
            /\ Len(searches') = Len(searches) + 1
            /\ OptionsIn(heap', Receiver) = OptionsIn(heap, Receiver) ]_vars

\* C3: when query() or filter() on a search s raises, s.options() afterwards
\* equals s.options() before the call.
C3_NoPartialMutation ==
    [][ Raises({"query", "filter"}) =>
            /\ searches' = searches
            /\ OptionsIn(heap', Receiver) = OptionsIn(heap, Receiver) ]_vars

(***************************************************************************)
(* The client boosting relevancy: it gives a new search one main query,    *)
(* then calls boost_relevancy on the search it holds, a call at a time,    *)
(* and may read the options in between.  `call` records the main query     *)
(* and the (score, condition) pairs in call order.                         *)
(***************************************************************************)
\* the main queries: query('abc'), query('abc', 'def'),
\* query(Q('abc') | Q('def')), query(string_field='abc'), exclude('abc'),
\* query(Q('abc') ** 2), query(short_field__gt=3)
Bases == {"term", "and", "or", "field", "not", "pow", "range"}

\* the conditions, each one keyword, and the scores
BoostFields == {"string_field", "short_field"}
BoostScores == {2, 3}
BoostCondition(f) ==
    <<KwArg(<<f>>, IF f = "short_field" THEN IntV(3) ELSE StrV("def"))>>

InitBoost ==
    /\ \E q \in {LuceneQuery(EmptyHeap, "q")} :
          /\ heap = q.h
          /\ searches = <<SolrSearch(q.v)>>
    /\ cur = 0
    /\ call = [name |-> "", base |-> "", boosts |-> << >>]
    /\ out = NoResult
    /\ raised = ""
    /\ nops = 0
    /\ budget = MaxBoosts
    /\ dynamic_field_cache = << >>
    /\ threads = << >>

\* the LuceneQuery argument of the call that makes the main query b
BaseArg(h, b) ==
    IF b \in {"or", "not", "pow"}
    THEN LET x == Leaf(h, "abc")
             y == Leaf(x.h, "def")
         IN  IF b = "or" THEN __or__(y.h, x.v, y.v)
             ELSE IF b = "not" THEN __invert__(x.h, x.v)
             ELSE __pow__(x.h, x.v, 2)
    ELSE Ret(h, 0)

\* the other arguments of that call
BaseValues(b) ==
    IF b = "term" THEN <<StrV("abc")>>
    ELSE IF b = "and" THEN <<StrV("abc"), StrV("def")>> ELSE << >>
BaseItems(b) ==
    IF b = "field" THEN <<KwArg(<<"string_field">>, StrV("abc"))>>
    ELSE IF b = "range" THEN <<KwArg(<<"short_field", "gt">>, IntV(3))>> ELSE << >>

\* s = SolrSearch(interface).query(...) or .exclude(...)
BoostBase(b) ==
    /\ call.name = ""
    /\ \E sub \in {BaseArg(heap, b)} :
       \E newself \in {SolrSearchFrom(sub.h, searches[1])} :
       \E r \in {add(newself.h, newself.v.query_obj,
                     [queries |-> IF sub.v = 0 THEN << >> ELSE <<sub.v>>,
                      values |-> BaseValues(b)],
                     [top |-> None, items |-> BaseItems(b)])} :
          /\ heap' = r.h
          /\ searches' = Append(searches, newself.v)
          /\ raised' = r.v
    /\ call' = [name |-> "query", base |-> b, boosts |-> << >>]
    /\ out' = NoResult
    /\ UNCHANGED <<cur, nops, budget, resolver>>

\* s = s.boost_relevancy(score, f=...)
BoostMore(score, f) ==
    /\ call.name # "" /\ nops < budget
    /\ bool(heap, Last(searches).query_obj)
    /\ \E newself \in {SolrSearchFrom(heap, Last(searches))} :
       \E r \in {add_boost(newself.h, newself.v.query_obj,
                           [top |-> None, items |-> BoostCondition(f)], score)} :
          /\ heap' = r.h
          /\ searches' = Append(searches, newself.v)
          /\ raised' = r.v
    /\ call' = [call EXCEPT !.name = "boost_relevancy",
                            !.boosts = Append(@, [score |-> score, field |-> f])]
    /\ out' = NoResult
    /\ nops' = nops + 1
    /\ UNCHANGED <<cur, budget, resolver>>

\* s.options()
BoostRead ==
    /\ call.name \in {"query", "boost_relevancy"}
    /\ \E r \in {SolrSearch_options(heap, Last(searches))} :
          /\ heap' = r.h
          /\ out' = [v |-> r.v, err |-> r.err]
          /\ raised' = r.err
    /\ call' = [call EXCEPT !.name = "options"]
    /\ UNCHANGED <<cur, searches, nops, budget, resolver>>

NextBoost ==
    \/ \E b \in Bases : BoostBase(b)
    \/ \E score \in BoostScores, f \in BoostFields : BoostMore(score, f)
    \/ BoostRead

SpecBoost == InitBoost /\ [][NextBoost]_vars

\* the main query b as serialized alone, as the first operand of the OR,
\* and as the first operand of the AND
BaseAlone(b) ==
    CASE b = "term"  -> "abc"
      [] b = "and"   -> "abc AND def"
      [] b = "or"    -> "abc OR def"
      [] b = "field" -> "string_field:abc"
      [] b = "not"   -> "NOT abc"
      [] b = "pow"   -> "abc^2"
      [] b = "range" -> "short_field:{3 TO *}"
BaseInOr(b) ==
    CASE b = "and" -> "(abc AND def)"
      [] b = "not" -> "(*:* AND NOT abc)"
      [] OTHER     -> BaseAlone(b)
BaseInAnd(b) ==
    CASE b = "or"  -> "(abc OR def)"
      [] b = "not" -> "(*:* AND NOT abc)"
      [] OTHER     -> BaseAlone(b)

\* c_i^s_i, and the boost clauses in call order
BoostClause(x) ==
    x.field \o ":" \o (IF x.field = "short_field" THEN "3" ELSE "def")
            \o "^" \o ToString(x.score)
BoostClauses(boosts) ==
    IF Len(boosts) = 1 THEN BoostClause(boosts[1])
    ELSE "(" \o Join([i \in DOMAIN boosts |-> BoostClause(boosts[i])], " OR ") \o ")"

\* the q of the search the client holds
MainQuery == OptionsIn(heap, Last(searches)).v["q"]

RangeFields == {"short_field", "string_field"}
RangeRels == {"range", "rangeexc"}
RangeBounds(field) ==
    IF field = "short_field"
    THEN {IntV(-3), IntV(0), IntV(3), StrV("3"), StrV("-3"), IntV(32768)}
    ELSE {StrV("abc"), StrV("def"), StrV("3"), StrV("-3"), StrV("hello world")}

\* Q(**{field__rel: (a, b)})
RangeQ(h, field, rel, a, b) ==
    Q(h, NoArgs, [top |-> None, items |-> <<KwTuple(<<field, rel>>, <<a, b>>)>>])

RangeBothWays(field, rel, a, b) ==
    /\ nops < budget
    /\ \E q1 \in {RangeQ(heap, field, rel, a, b)} :
       \E q2 \in {RangeQ(q1.h, field, rel, b, a)} :
          IF q1.err # "" \/ q2.err # ""
          THEN /\ heap' = q2.h
               /\ out' = [fwd |-> [v |-> "", err |-> q1.err],
                          rev |-> [v |-> "", err |-> q2.err]]
               /\ raised' = IF q1.err # "" THEN q1.err ELSE q2.err
          ELSE \E s1 \in {__str__(q2.h, q1.v)} : \E s2 \in {__str__(s1.h, q2.v)} :
               /\ heap' = s2.h
               /\ out' = [fwd |-> Shown(s1), rev |-> Shown(s2)]
               /\ raised' = ""
    /\ call' = [name |-> "range", field |-> field, rel |-> rel, a |-> a, b |-> b]
    /\ nops' = nops + 1
    /\ UNCHANGED <<cur, searches, budget, resolver>>

InitRange == InitClient(1)

NextRange ==
    \E field \in RangeFields, rel \in RangeRels :
        \E a, b \in RangeBounds(field) : RangeBothWays(field, rel, a, b)

SpecRange == InitRange /\ [][NextRange]_vars

\* the value a bound stands for on the field, and how it is rendered
BoundValue(field, x) ==
    IF field = "short_field" /\ x.t = "str"
    THEN IntV(CHOOSE n \in {-3, 3} : ToString(n) = x.s) ELSE x
BoundText(x) ==
    IF x.t = "int"
    THEN (IF x.n < 0 THEN "\\-" \o ToString(-x.n) ELSE ToString(x.n))
    ELSE StringInfo(x.s).escaped
BoundLess(x, y) == IF x.t = "int" THEN x.n < y.n ELSE StrRank(x.s) < StrRank(y.s)

\* field:[lo TO hi], or field:{lo TO hi} for rangeexc
RangeText(field, rel, lo, hi) ==
    field \o ":" \o (IF rel = "range" THEN "[" ELSE "{") \o BoundText(lo)
          \o " TO " \o BoundText(hi) \o (IF rel = "range" THEN "]" ELSE "}")

\* C12: for valid bounds a and b, field__range=(a, b) and field__range=(b, a)
\* serialize identically, with the smaller bound (in the order of the
\* field's values) first; the same for rangeexc.
C12_RangeOrderInsensitive ==
    (call.name = "range" /\ raised = "") =>
        LET a == BoundValue(call.field, call.a)
            b == BoundValue(call.field, call.b)
        IN  /\ out.fwd = out.rev
            /\ out.fwd = Str3(IF BoundLess(b, a)
                              THEN RangeText(call.field, call.rel, b, a)
                              ELSE RangeText(call.field, call.rel, a, b))

\* the range (3, -3) on the short field
C12_Witness ==
    /\ call.name = "range" /\ call.field = "short_field" /\ call.rel = "range"
    /\ call.a = IntV(3) /\ call.b = IntV(-3)
    /\ out.fwd = Str3("short_field:[\\-3 TO 3]")
    /\ out.rev = out.fwd

(***************************************************************************)
(* Invariants of the query tree.                                           *)
(***************************************************************************)
\* the combinator tags a node carries: _pow is a tag when it is not False
Tags(n) ==
    (IF n._and THEN {"AND"} ELSE {}) \cup (IF n._or THEN {"OR"} ELSE {})
    \cup (IF n._not THEN {"NOT"} ELSE {}) \cup (IF n._pow # Nothing THEN {"POW"} ELSE {})

\* C13: every query node carries exactly one combinator tag out of AND, OR,
\* NOT and POW(score), after construction, after each combinator and after
\* normalization.
C13_OneTag ==
    \A i \in DOMAIN heap.nodes : Cardinality(Tags(heap.nodes[i])) = 1

\* C14: in every normalized tree each NOT node and each POW node has
\* exactly one child and holds no terms, phrases or ranges of its own.
C14_NotPowOneChild ==
    cur # 0 =>
        \A p \in NormalizedPositions :
            LET n == NormalizedCur.h.nodes[p.n]
            IN  (n._not \/ n._pow # Nothing) =>
                    /\ Len(Subqueries(NormalizedCur.h, p.n)) = 1
                    /\ DOMAIN n.terms = {} /\ DOMAIN n.phrases = {} /\ n.ranges = {}

(***************************************************************************)
(* Field resolution (schema.py): SolrSchema.match_field and                *)
(* match_dynamic_field, called by two threads on one schema.  A thread's   *)
(* step is one access to the schema's state: the lookup in `fields`, the   *)
(* read of `dynamic_field_cache`, the test of one dynamic field's pattern, *)
(* the write of the cache.                                                 *)
(***************************************************************************)
Threads == {1, 2}

\* SolrField(name, dynamic=...)
SolrField(name, dynamic) ==
    [name |-> name, dynamic |-> dynamic,
     wildcard_at_start |-> dynamic /\ SubSeq(name, 1, 1) = "*"]

\* the schema's `fields`, by name, and its `dynamic_fields`, as declared
fields ==
    [n \in {"id", "title_s"} |-> SolrField(n, FALSE)]
dynamic_fields ==
    <<SolrField("attr_*", TRUE), SolrField("*_s", TRUE),
      SolrField("*_st", TRUE), SolrField("attr_x*", TRUE)>>

\* the names the threads resolve
Names == {"id", "title_s", "attr_s", "attr_x_s", "b_s", "b_st", "other"}

endswith(str, suffix) ==
    /\ Len(suffix) <= Len(str)
    /\ SubSeq(str, Len(str) - Len(suffix) + 1, Len(str)) = suffix
startswith(str, prefix) ==
    /\ Len(prefix) <= Len(str)
    /\ SubSeq(str, 1, Len(prefix)) = prefix

\* field.match(name)
SolrField_match(field, name) ==
    /\ field.dynamic
    /\ IF field.wildcard_at_start
       THEN endswith(name, SubSeq(field.name, 2, Len(field.name)))
       ELSE startswith(name, SubSeq(field.name, 1, Len(field.name) - 1))

\* a thread outside any call, and its positions inside one
\* (ret is Some(field), or Nothing for None)
Idle == [pc |-> "idle", fn |-> "", name |-> "", i |-> 0, miss |-> FALSE,
         ret |-> Nothing]
Enter(fn, name) ==
    [Idle EXCEPT !.pc = IF fn = "match_field" THEN "fields" ELSE "cache",
                 !.fn = fn, !.name = name]
Return(th, ret) == [th EXCEPT !.pc = "done", !.ret = ret]

\* match_field: try: return self.fields[name]; except KeyError: ...
TryFields(th) ==
    IF th.name \in DOMAIN fields THEN Return(th, Some(fields[th.name]))
    ELSE [th EXCEPT !.pc = "cache"]

\* match_dynamic_field: try: return self.dynamic_field_cache[name]
TryCache(th, cache) ==
    IF th.name \in DOMAIN cache THEN Return(th, Some(cache[th.name]))
    ELSE [th EXCEPT !.pc = "scan", !.i = 1, !.miss = TRUE]

\* the scan that stops at the last match: what ScanNext is not
ScanToLast(th) ==
    IF th.i > Len(dynamic_fields) THEN Return(th, Nothing)
    ELSE IF /\ SolrField_match(dynamic_fields[th.i], th.name)
            /\ \A j \in th.i + 1 .. Len(dynamic_fields) :
                  ~SolrField_match(dynamic_fields[j], th.name)
         THEN [th EXCEPT !.pc = "write"]
         ELSE [th EXCEPT !.i = th.i + 1]

\* for field in self.dynamic_fields: if field.match(name): ...
\* (th.i is the position of `field`; a loop that ends without a match
\* returns None)
ScanNext(th) ==
    IF th.i > Len(dynamic_fields) THEN Return(th, Nothing)
    ELSE IF SolrField_match(dynamic_fields[th.i], th.name)
         THEN [th EXCEPT !.pc = "write"]
         ELSE [th EXCEPT !.i = th.i + 1]

\* a write that is lost: what CacheWrite is not
CacheUnwritten(cache, name, field) == cache

\* self.dynamic_field_cache[name] = field
CacheWrite(cache, name, field) ==
    [n \in DOMAIN cache \cup {name} |-> IF n = name THEN field ELSE cache[n]]

InitResolve ==
    /\ heap = EmptyHeap
    /\ cur = 0
    /\ searches = << >>
    /\ call = Call("", "", 0)
    /\ out = NoResult
    /\ raised = ""
    /\ nops = 0
    /\ budget = 0
    /\ dynamic_field_cache = << >>
    /\ threads = [t \in Threads |-> Idle]

\* thread t calls schema.match_field(name) or schema.match_dynamic_field(name)
Resolve(t, fn, name) ==
    /\ threads[t].pc \in {"idle", "done"}
    /\ threads' = [threads EXCEPT ![t] = Enter(fn, name)]
    /\ UNCHANGED <<dynamic_field_cache, builder>>

LookupFields(t) ==
    /\ threads[t].pc = "fields"
    /\ threads' = [threads EXCEPT ![t] = TryFields(threads[t])]
    /\ UNCHANGED <<dynamic_field_cache, builder>>

ReadCache(t) ==
    /\ threads[t].pc = "cache"
    /\ threads' = [threads EXCEPT ![t] = TryCache(threads[t], dynamic_field_cache)]
    /\ UNCHANGED <<dynamic_field_cache, builder>>

Scan(t) ==
    /\ threads[t].pc = "scan"
    /\ threads' = [threads EXCEPT ![t] = ScanNext(threads[t])]
    /\ UNCHANGED <<dynamic_field_cache, builder>>

\* the write of the cache, and the `return field` that follows it
WriteCache(t) ==
    /\ threads[t].pc = "write"
    /\ dynamic_field_cache' =
          CacheWrite(dynamic_field_cache, threads[t].name,
                     dynamic_fields[threads[t].i])
    /\ threads' = [threads EXCEPT
                      ![t] = Return(threads[t], Some(dynamic_fields[threads[t].i]))]
    /\ UNCHANGED builder

NextResolve ==
    \/ \E t \in Threads, fn \in {"match_field", "match_dynamic_field"},
          name \in Names : Resolve(t, fn, name)
    \/ \E t \in Threads : LookupFields(t)
    \/ \E t \in Threads : ReadCache(t)
    \/ \E t \in Threads : Scan(t)
    \/ \E t \in Threads : WriteCache(t)

SpecResolve == InitResolve /\ [][NextResolve]_vars

\* the dynamic fields that match name, by position of declaration
Matching(name) ==
    {i \in 1..Len(dynamic_fields) : SolrField_match(dynamic_fields[i], name)}
FirstDeclared(name) ==
    IF Matching(name) = {} THEN Nothing
    ELSE Some(dynamic_fields[CHOOSE i \in Matching(name) :
                                 \A j \in Matching(name) : i <= j])
Done(t, fn) == threads[t].pc = "done" /\ threads[t].fn = fn

\* C15: match_field(name) returns the static field called name if there is
\* one, otherwise the first-declared dynamic field whose pattern matches name,
\* otherwise None, whatever calls were made before (the result depends on
\* name alone); match_dynamic_field(name) returns the first-declared match or
\* None; and every cache entry maps its name to the first-declared match.
C15_FieldResolution ==
    /\ \A t \in Threads :
          /\ Done(t, "match_field") =>
                threads[t].ret = IF threads[t].name \in DOMAIN fields
                                 THEN Some(fields[threads[t].name])
                                 ELSE FirstDeclared(threads[t].name)
          /\ Done(t, "match_dynamic_field") =>
                threads[t].ret = FirstDeclared(threads[t].name)
    /\ \A n \in DOMAIN dynamic_field_cache :
          /\ Matching(n) # {}
          /\ Some(dynamic_field_cache[n]) = FirstDeclared(n)

\* a name that two patterns match has been resolved from the cache, after
\* other names were resolved, to the first-declared one
C15_Witness ==
    \E t \in Threads :
        /\ Done(t, "match_field")
        /\ threads[t].name = "attr_x_s"
        /\ ~threads[t].miss
        /\ Cardinality(Matching("attr_x_s")) = 3
        /\ threads[t].ret = Some(dynamic_fields[1])
        /\ Cardinality(DOMAIN dynamic_field_cache) >= 3

\* both threads resolved the same name, each having found the cache empty of it
Raced ==
    /\ \A t \in Threads : threads[t].pc = "done" /\ threads[t].miss
    /\ threads[1].name = threads[2].name

\* C16: when two threads have resolved the same name of a dynamic field, both
\* having missed the cache, both calls returned the same descriptor and the
\* cache maps the name to that descriptor.
C16_BenignRace ==
    Raced /\ Matching(threads[1].name) # {} =>
        /\ threads[1].ret = threads[2].ret
        /\ threads[1].name \in DOMAIN dynamic_field_cache
        /\ Some(dynamic_field_cache[threads[1].name]) = threads[1].ret

C16_Witness ==
    /\ Raced
    /\ threads[1].name = "attr_s"
    /\ threads[1].ret = Some(dynamic_fields[1])
    /\ threads[1].fn # threads[2].fn

(***************************************************************************)
(* The integer fields (schema.py): a client adds one keyword argument on a *)
(* short, int or long field to a new query, the value an int, a float or a *)
(* string.                                                                 *)
(***************************************************************************)
IntegerKinds == {"short", "int", "long"}
IntegerField == [short |-> "short_field", int |-> "int_field", long |-> "long_field"]

\* the magnitudes the client passes, in decimal: 2^15, 2^31 and 2^63, their
\* neighbours, and some far from them
Numerals ==
    { "0", "3", "32767", "32768", "32769",
      "2147483647", "2147483648", "2147483649",
      "9223372036854775807", "9223372036854775808", "9223372036854775809",
      "18446744073709551616" }

\* the values: ints, the same as strings, floats one half beyond those that
\* a double holds exactly, and strings that are no numerals
IntegerInputs ==
    [neg : BOOLEAN, text : Numerals, type : {"int", "str"}]
        \cup [neg : BOOLEAN, text : {n \in Numerals : Len(n) <= 10}, type : {"float"}]
        \cup [neg : {FALSE}, text : {"a", ""}, type : {"str"}]

IntegerValue(x) ==
    CASE x.type = "int"   -> LongV(x.neg, MagOfDigits(x.text, << >>))
      [] x.type = "float" -> FloatV(x.neg, MagOfDigits(x.text, << >>), TRUE)
      [] x.type = "str"   -> StrV((IF x.neg THEN "-" ELSE "") \o x.text)

InitInteger ==
    /\ heap = EmptyHeap
    /\ cur = 0
    /\ searches = << >>
    /\ call = [name |-> "", kind |-> "", x |-> [neg |-> FALSE, text |-> "", type |-> ""]]
    /\ out = NoResult
    /\ raised = ""
    /\ nops = 0
    /\ budget = 1
    /\ dynamic_field_cache = << >>
    /\ threads = << >>

\* q = Q(**{field: value}) on the field of the kind
AddInteger(kind, x) ==
    /\ nops < budget
    /\ nops' = nops + 1
    /\ \E r \in {Q(EmptyHeap, NoArgs,
                   [top |-> None,
                    items |-> <<KwArg(<<IntegerField[kind]>>, IntegerValue(x))>>])} :
          /\ heap' = r.h
          /\ cur' = r.v
          /\ raised' = r.err
    /\ call' = [name |-> "add", kind |-> kind, x |-> x]
    /\ out' = NoResult
    /\ UNCHANGED <<searches, budget, resolver>>

NextInteger ==
    \E kind \in IntegerKinds, x \in IntegerInputs : AddInteger(kind, x)

SpecInteger == InitInteger /\ [][NextInteger]_vars

\* a < b, for numerals a and b without leading zeros
NumeralLess(a, b) ==
    \/ Len(a) < Len(b)
    \/ /\ Len(a) = Len(b)
       /\ \E i \in 1..Len(a) :
             /\ DigitOf(SubSeq(a, i, i)) < DigitOf(SubSeq(b, i, i))
             /\ SubSeq(a, 1, i - 1) = SubSeq(b, 1, i - 1)

\* 2^(w-1) in decimal, for the widths 16, 32 and 64
TwoToWidthLessOne ==
    [short |-> "32768", int |-> "2147483648", long |-> "9223372036854775808"]

\* -(2^(w-1)) <= int(v) <= 2^(w-1) - 1, for the value of the call
WithinWidth ==
    /\ call.x.text \notin {"a", ""}
    /\ IF call.x.neg /\ call.x.text # "0"
       THEN ~NumeralLess(TwoToWidthLessOne[call.kind], call.x.text)
       ELSE NumeralLess(call.x.text, TwoToWidthLessOne[call.kind])

\* the clauses of the query the call built
ClausesOfCur ==
    [ terms   |-> [k \in DOMAIN heap.nodes[cur].terms |->
                       heap.sets[heap.nodes[cur].terms[k]]],
      phrases |-> [k \in DOMAIN heap.nodes[cur].phrases |->
                       heap.sets[heap.nodes[cur].phrases[k]]],
      ranges  |-> heap.nodes[cur].ranges,
      subqueries |-> Subqueries(heap, cur) ]
NoClauses == [terms |-> << >>, phrases |-> << >>, ranges |-> {}, subqueries |-> << >>]

\* C17: an integer field of width w accepts a value v exactly when
\* -(2^(w-1)) <= int(v) <= 2^(w-1) - 1; an accepted value becomes the one term
\* of the field, and a rejected value raises SolrError and leaves the query
\* without any clause.
C17_IntegerBounds ==
    call.name = "add" =>
        /\ raised = "" <=> WithinWidth
        /\ raised # "" => raised = "SolrError" /\ ClausesOfCur = NoClauses
        /\ raised = "" =>
              /\ DOMAIN ClausesOfCur.terms = {IntegerField[call.kind]}
              /\ Cardinality(ClausesOfCur.terms[IntegerField[call.kind]]) = 1
              /\ ClausesOfCur.phrases = << >>
              /\ ClausesOfCur.ranges = {}

\* the 32-bit field has rejected 2**31, and the query holds no clause
C17_Witness ==
    /\ call.name = "add"
    /\ call.kind = "int"
    /\ call.x = [neg |-> FALSE, text |-> "2147483648", type |-> "int"]
    /\ raised = "SolrError"
    /\ ClausesOfCur = NoClauses

(***************************************************************************)
(* The wire round trip (schema.py): a value from the user is normalized by *)
(* from_user_data, written by to_solr and read back by from_solr.          *)
(***************************************************************************)
WireBytes == {0, 97, 255}
ByteStrings ==
    {<< >>} \cup UNION {[1..n -> WireBytes] : n \in 1..3}
            \cup {<<97, 98, 99, 100>>, <<0, 0, 0, 255, 255>>}

WireValues ==
    [ boolean |-> {BoolV(TRUE), BoolV(FALSE), StrV("true"), StrV("false"),
                   IntV(1), IntV(0), StrV("abc")},
      binary  |-> {BytesV(bytes) : bytes \in ByteStrings},
      uuid    |-> {StrV("NEW"),
                   UuidV("12345678123456781234567812345678"),
                   StrV("12345678-1234-5678-1234-567812345678"),
                   StrV("0000000000000000000000000000ABCD"),
                   StrV("abc")},
      date    |-> {DatetimeV("2009-01-01", "00:00:00", 0),
                   DatetimeV("2009-01-01", "01:02:03", 456),
                   StrV("2009-01-01T00:00:00Z"),
                   StrV("2009-01-01T01:02:03.000456Z"),
                   SolrDateV(0, DatetimeV("2009-01-01", "00:00:00", 0)),
                   StrV("abc")},
      short   |-> {IntegerValue(x) : x \in IntegerInputs},
      int     |-> {IntegerValue(x) : x \in IntegerInputs},
      long    |-> {IntegerValue(x) : x \in IntegerInputs} ]

InitWire ==
    /\ heap = EmptyHeap
    /\ cur = 0
    /\ searches = << >>
    /\ call = [name |-> "", kind |-> "", x |-> StrV("")]
    /\ out = NoResult
    /\ raised = ""
    /\ nops = 0
    /\ budget = 1
    /\ dynamic_field_cache = << >>
    /\ threads = << >>

\* a = field.from_user_data(x); b = field.from_solr(field.to_solr(a))
RoundTrip(kind, x) ==
    /\ nops < budget
    /\ nops' = nops + 1
    /\ \E a \in {AnyFromUserData(kind, x, 1)} :
          IF a.ok
          THEN \E wire \in {to_solr(kind, a.v)} :
               \E b \in {from_solr(kind, wire, 2)} :
                  /\ out' = [a |-> a, wire |-> wire, b |-> b]
                  /\ raised' = b.err
          ELSE /\ out' = [a |-> a, wire |-> "", b |-> a]
               /\ raised' = a.err
    /\ call' = [name |-> "round_trip", kind |-> kind, x |-> x]
    /\ UNCHANGED <<heap, cur, searches, budget, resolver>>

NextWire ==
    \E kind \in DOMAIN WireValues : \E x \in WireValues[kind] : RoundTrip(kind, x)

SpecWire == InitWire /\ [][NextWire]_vars

\* C18: for every field kind and every valid input x (one that from_user_data
\* accepts), from_solr(to_solr(from_user_data(x))) returns a value equal to
\* from_user_data(x).
C18_RoundTrip ==
    call.name = "round_trip" /\ out.a.ok =>
        /\ out.b.ok
        /\ PyEq(out.b.v, out.a.v)

(***************************************************************************)
(* Slicing a search (search.py): BaseSearch.__getitem__ with a slice, on a *)
(* search whose query matches NumFound documents.  The document at         *)
(* position i of the whole result is i.  interface.search returns the      *)
(* documents from `start` on, at most `rows` of them.                      *)
(***************************************************************************)
NumFounds == {0, 3, 20}
Docs(numFound) == [i \in 1..numFound |-> i - 1]

Max(a, b) == IF a >= b THEN a ELSE b
Min(a, b) == IF a <= b THEN a ELSE b

\* range(start, stop, step)
PyRange(start, stop, step) ==
    LET span == IF step > 0 THEN stop - start ELSE start - stop
        by   == IF step > 0 THEN step ELSE -step
        size == IF span <= 0 THEN 0 ELSE (span + by - 1) \div by
    IN  [j \in 1..size |-> start + (j - 1) * step]

\* slice(start, stop, step).indices(length), step not zero; start and stop
\* are Nothing for None
SliceStart(start, step, length) ==
    IF start = Nothing THEN (IF step < 0 THEN length - 1 ELSE 0)
    ELSE IF start[1] < 0
         THEN (IF start[1] + length < 0 THEN (IF step < 0 THEN -1 ELSE 0)
               ELSE start[1] + length)
         ELSE (IF start[1] >= length THEN (IF step < 0 THEN length - 1 ELSE length)
               ELSE start[1])
SliceStop(stop, step, length) ==
    IF stop = Nothing THEN (IF step < 0 THEN -1 ELSE length)
    ELSE IF stop[1] < 0
         THEN (IF stop[1] + length < 0 THEN (IF step < 0 THEN -1 ELSE 0)
               ELSE stop[1] + length)
         ELSE (IF stop[1] >= length THEN (IF step < 0 THEN length - 1 ELSE length)
               ELSE stop[1])

\* the positions list[start:stop:step] selects, in order, and the slice
PyIndices(length, start, stop, step) ==
    PyRange(SliceStart(start, step, length), SliceStop(stop, step, length), step)
PySlice(list, start, stop, step) ==
    LET at == PyIndices(Len(list), start, stop, step)
    IN  [j \in DOMAIN at |-> list[at[j] + 1]]

\* what one request to the server returns: self.paginate(start, rows).execute()
\* on a search without earlier pagination
Search(numFound, start, rows) ==
    SubSeq(Docs(numFound), start + 1, Min(start + rows, numFound))
Request(start, rows) == [start |-> start, rows |-> rows]

\* PaginateOptions of a search that was not paginated
Unpaginated == [start |-> Nothing, rows |-> Nothing]

\* self.count(): [fetches, v]
count(paginator, numFound) ==
    IF paginator.rows # Nothing THEN [fetches |-> << >>, v |-> paginator.rows[1]]
    ELSE [fetches |-> <<Request(paginator.start, Some(0))>>,
          v |-> IF paginator.start # Nothing THEN numFound - paginator.start[1]
                ELSE numFound]

\* the bound of a slice as a position: operator.index(s), a negative one
\* counted from the end and not below 0, then moved by inc
SliceBound(s, total, inc) ==
    (IF s[1] < 0 THEN Max(0, s[1] + total) ELSE s[1]) + inc

\* BaseSearch.__getitem__(k) for a slice k = [start, stop, step]:
\* [fetches, docs, err]
getitem(paginator, numFound, k) ==
    LET offset == IF paginator.start = Nothing THEN 0 ELSE paginator.start[1]
        step == IF k.step # Nothing THEN k.step[1] ELSE 1
        s1 == IF step > 0 THEN k.start ELSE k.stop
        s2 == IF step > 0 THEN k.stop ELSE k.start
        inc == IF step > 0 THEN 0 ELSE 1
        counted == \/ s1 # Nothing /\ s1[1] < 0
                   \/ s2 = Nothing
                   \/ s2 # Nothing /\ s2[1] < 0
        total == count(paginator, numFound)
        start == IF s1 # Nothing THEN SliceBound(s1, total.v, inc) ELSE 0
        stop  == IF s2 # Nothing THEN SliceBound(s2, total.v, inc) ELSE total.v
        rows  == Max(IF paginator.rows # Nothing
                     THEN Min(stop - start, paginator.rows[1])
                     ELSE stop - start, 0)
        docs  == Search(numFound, start + offset, rows)
    IN  IF step = 0
        THEN [fetches |-> << >>, docs |-> << >>, err |-> "ValueError"]
        ELSE [fetches |-> (IF counted THEN total.fetches ELSE << >>)
                            \o <<Request(Some(start + offset), Some(rows))>>,
              docs    |-> IF step # 1 THEN PySlice(docs, Nothing, Nothing, step)
                          ELSE docs,
              err     |-> ""]

SliceBounds == {Nothing} \cup {Some(i) : i \in -MaxNegIndex..MaxIndex}
SliceSteps == {Nothing} \cup {Some(i) : i \in -MaxStep..MaxStep}

InitSlice ==
    /\ heap = EmptyHeap
    /\ cur = 0
    /\ searches = << >>
    /\ call = [name |-> "", numFound |-> 0,
               k |-> [start |-> Nothing, stop |-> Nothing, step |-> Nothing]]
    /\ out = NoResult
    /\ raised = ""
    /\ nops = 0
    /\ budget = 1
    /\ dynamic_field_cache = << >>
    /\ threads = << >>

\* response = search[start:stop:step], the query matching numFound documents
GetSlice(numFound, start, stop, step) ==
    /\ nops < budget
    /\ nops' = nops + 1
    /\ \E r \in {getitem(Unpaginated, numFound,
                         [start |-> start, stop |-> stop, step |-> step])} :
          /\ out' = [fetches |-> r.fetches, docs |-> r.docs]
          /\ raised' = r.err
    /\ call' = [name |-> "getitem", numFound |-> numFound,
                k |-> [start |-> start, stop |-> stop, step |-> step]]
    /\ UNCHANGED <<heap, cur, searches, budget, resolver>>

NextSlice ==
    \E numFound \in NumFounds, start \in SliceBounds, stop \in SliceBounds,
       step \in SliceSteps : GetSlice(numFound, start, stop, step)

SpecSlice == InitSlice /\ [][NextSlice]_vars

\* the step of the call's slice, and the positions its last request was
\* answered with
StepOfCall == IF call.k.step = Nothing THEN 1 ELSE call.k.step[1]
Fetched ==
    LET f == Last(out.fetches)
    IN  Range(Search(call.numFound, f.start[1], f.rows[1]))

\* a slice [a:b:s] with 0 <= a <= b and s >= 1 makes one request, with
\* start = a and rows = b - a, and returns every s-th document of its answer
C19_ForwardSlice ==
    /\ call.name = "getitem"
    /\ call.k.start # Nothing /\ call.k.stop # Nothing
    /\ 0 <= call.k.start[1] /\ call.k.start[1] <= call.k.stop[1]
    /\ StepOfCall >= 1
    =>  /\ raised = ""
        /\ out.fetches = <<Request(call.k.start, Some(call.k.stop[1] - call.k.start[1]))>>
        /\ LET answer == Search(call.numFound, call.k.start[1],
                                call.k.stop[1] - call.k.start[1])
           IN  out.docs = [j \in 1..(Len(answer) + StepOfCall - 1) \div StepOfCall |->
                              answer[1 + (j - 1) * StepOfCall]]

\* a slice with a negative step returns the documents Python's slicing of the
\* whole result selects, in that (reverse) order; its request is answered
\* with all of them, and with no others when the step is -1
C19_BackwardSlice ==
    call.name = "getitem" /\ StepOfCall < 0 =>
        LET selected == PySlice(Docs(call.numFound), call.k.start, call.k.stop,
                                StepOfCall)
        IN  /\ raised = ""
            /\ out.docs = selected
            /\ Range(selected) \subseteq Fetched
            /\ StepOfCall = -1 => Fetched = Range(selected)

\* C19: slicing an unpaginated search with [a:b:s], 0 <= a <= b and s >= 1,
\* makes exactly one request, with start = a and rows = b - a, and returns the
\* documents of its answer at positions 0, s, 2s, ...; with a negative step
\* the request covers the positions Python's slicing selects and the
\* documents come back in reverse.
C19_SliceFetch == C19_ForwardSlice /\ C19_BackwardSlice

(***************************************************************************)
(* The main query of a search (search.py): the client of the search        *)
(* builder with the calls that bear on the parameter q -- query, exclude,  *)
(* filter, boost_relevancy and add_extra -- and with empty arguments.      *)
(***************************************************************************)
MainInputs ==
    { In("", <<StrV("abc")>>, << >>),
      In("", << >>, << >>),
      In("def", << >>, << >>),
      In("", <<StrV("def")>>, <<KwArg(<<"nofield">>, IntV(3))>>) }
MainExcludeInputs == { In("", <<StrV("abc")>>, << >>), In("", << >>, << >>) }
MainFilterInputs == { In("", <<StrV("abc")>>, << >>) }
ExtraInputs == { "q" :> StrV("def"), "wt" :> StrV("json") }

\* searches[i].add_extra(**kwargs)
AddExtra(i, kwargs) ==
    /\ nops < budget
    /\ \E newself \in {SolrSearchFrom(heap, searches[i])} :
          Builder("add_extra", i, "", newself.h,
                  [newself.v EXCEPT !.extra = kwargs @@ @], "")

NextMain ==
    \/ \E i \in DOMAIN searches, input \in MainInputs : Query(i, input)
    \/ \E i \in DOMAIN searches, input \in MainExcludeInputs : Exclude(i, input)
    \/ \E i \in DOMAIN searches, items \in BoostInputs : BoostRelevancy(i, 2, items)
    \/ \E i \in DOMAIN searches, input \in MainFilterInputs : Filter(i, input)
    \/ \E i \in DOMAIN searches, kwargs \in ExtraInputs : AddExtra(i, kwargs)
    \/ \E i \in DOMAIN searches : ReadOptions(i)

SpecMain == InitSearch /\ [][NextMain]_vars

\* what the main query of the search s serializes to
MainOf(s) == StrOf(heap, s.query_obj)

SortInputs ==
    { "int_field", "-int_field", "+text_field", "-short_field", "score", "-score",
      "+score", "nofield", "-nofield", "string_field", "+string_field",
      "stored_field", "-stored_field", "-", "+-int_field" }

\* str[1:]
FromSecond(str) == SubSeq(str, 2, Len(str))

\* the checks of SortOptions.update on the field named: the exception
\* raised ("" if none)
SortFieldError(field) ==
    IF field = "score" THEN ""
    ELSE IF ~HasField(field) THEN "SolrError"
    ELSE IF match_field(field).multi_valued THEN "SolrError"
    ELSE IF ~match_field(field).indexed THEN "SolrError"
    ELSE ""

\* a sorter that takes any field named and puts the last call first: what
\* SortOptions.update is not
SortPrepended(self_fields, field) ==
    LET order == IF startswith(field, "-") THEN "desc" ELSE "asc"
        name  == IF startswith(field, "-") \/ startswith(field, "+")
                 THEN FromSecond(field) ELSE field
    IN  [v |-> <<<<order, name>>>> \o self_fields, err |-> ""]

\* SortOptions.update(field) on the list self_fields: [v, err], v the list
\* afterwards
SortOptions_update(self_fields, field) ==
    LET order == IF startswith(field, "-") THEN "desc" ELSE "asc"
        name  == IF startswith(field, "-") \/ startswith(field, "+")
                 THEN FromSecond(field) ELSE field
    IN  IF SortFieldError(name) # "" THEN [v |-> self_fields, err |-> SortFieldError(name)]
        ELSE [v |-> Append(self_fields, <<order, name>>), err |-> ""]

\* searches[i].sort_by(field)
SortBy(i, field) ==
    /\ nops < budget
    /\ \E newself \in {SolrSearchFrom(heap, searches[i])} :
       \E r \in {SortOptions_update(newself.v.sorter, field)} :
          Builder("sort_by", i, field, newself.h, [newself.v EXCEPT !.sorter = r.v], r.err)

NextSort ==
    \/ \E i \in DOMAIN searches, field \in SortInputs : SortBy(i, field)
    \/ \E i \in DOMAIN searches : ReadOptions(i)

SpecSort == InitSearch /\ [][NextSort]_vars

\* the (field, asc|desc) pair each argument of sort_by stands for, for the
\* arguments that name 'score' or an indexed single-valued field
SortPairs ==
    ("int_field" :> "int_field asc") @@ ("-int_field" :> "int_field desc")
    @@ ("+text_field" :> "text_field asc") @@ ("-short_field" :> "short_field desc")
    @@ ("score" :> "score asc") @@ ("-score" :> "score desc")
    @@ ("+score" :> "score asc")

\* the 'sort' option of the search s, "" if s.options() has none
SortOf(h, s) ==
    LET options == OptionsIn(h, s)
    IN  IF "sort" \in DOMAIN options.v THEN options.v["sort"].s ELSE ""

\* C21: a new search has no 'sort' option; sort_by with 'score' or an indexed
\* single-valued field, with or without a sign, returns a search whose
\* 'sort' option is the receiver's with the (field, asc|desc) pair appended
\* ('-' is desc, '+' or no sign asc) and changes no search held before; any
\* other sort_by raises and adds nothing.
C21_SortAppendOnly ==
    /\ SortOf(heap, searches[1]) = ""
    /\ [][ (nops' = nops + 1 /\ call'.name = "sort_by") =>
              IF call'.field \in DOMAIN SortPairs
              THEN /\ raised' = ""
                   /\ Len(searches') = Len(searches) + 1
                   /\ \A j \in DOMAIN searches :
                         SortOf(heap', searches'[j]) = SortOf(heap, searches[j])
                   /\ SortOf(heap', Last(searches')) =
                         (IF SortOf(heap, Receiver) = "" THEN ""
                          ELSE SortOf(heap, Receiver) \o ", ")
                         \o SortPairs[call'.field]
              ELSE /\ raised' # ""
                   /\ searches' = searches
                   /\ \A j \in DOMAIN searches :
                         SortOf(heap', searches[j]) = SortOf(heap, searches[j]) ]_vars

\* a third sort_by was accepted after a descending and an ascending one
C21_Witness ==
    /\ call.name = "sort_by"
    /\ raised = ""
    /\ SortOf(heap, Last(searches)) = "int_field desc, score asc, text_field asc"

(***************************************************************************)
(* Range facets (search.py, FacetRangeOptions): the client calls           *)
(* facet_by_range once on a new search, with a mapping from one or two     *)
(* fields to their start, end and gap.  A mapping is the list of its       *)
(* [field, opts] items in insertion order, which is the order Python       *)
(* iterates a dict in.                                                     *)
(***************************************************************************)
\* twice the number v holds (a float of the model ends in .0 or .5)
Twice(v) ==
    CASE v.t = "int" -> 2 * v.n
      [] v.t = "bool" -> IF v.b THEN 2 ELSE 0
      [] v.t = "float" ->
            (IF v.b THEN -1 ELSE 1) * (2 * MagValue(v.mag) + (IF v.half THEN 1 ELSE 0))

\* isinstance(v, int), isinstance(v, float): a bool is an int
IsInt(v) == v.t \in {"int", "bool"}
IsFloat(v) == v.t = "float"

\* datetime < datetime
DatetimeFields(dt) ==
    <<DigitsValue(SubSeq(dt.date, 1, 4)), DigitsValue(SubSeq(dt.date, 6, 7)),
      DigitsValue(SubSeq(dt.date, 9, 10)), DigitsValue(SubSeq(dt.time, 1, 2)),
      DigitsValue(SubSeq(dt.time, 4, 5)), DigitsValue(SubSeq(dt.time, 7, 8)),
      dt.microsecond>>
DatetimeLess(a, b) ==
    \E i \in 1..7 : /\ DatetimeFields(a)[i] < DatetimeFields(b)[i]
                    /\ \A j \in 1..i - 1 : DatetimeFields(a)[j] = DatetimeFields(b)[j]

\* a > b.  solr_date has __lt__, and its __gt__ from functools.total_ordering
\* is "not a < b and a != b", with the != of object identity; a number
\* compared with a solr_date ends in solr_date.__lt__ reading _dt_obj of the
\* number.
PyGt(a, b) ==
    CASE a.t = "solr_date" /\ b.t = "solr_date" ->
            Ok(BoolV(~DatetimeLess(a._dt_obj, b._dt_obj) /\ a.id # b.id))
      [] a.t = "solr_date" \/ b.t = "solr_date" -> Fail("AttributeError")
      [] a.t \in {"int", "bool", "float"} /\ b.t \in {"int", "bool", "float"} ->
            Ok(BoolV(Twice(a) > Twice(b)))
      [] OTHER -> Fail("TypeError")

\* FacetRangeOptions.__validate_range_endpoint
validate_range_endpoint(v) ==
    CASE v.t \in {"int", "bool", "float"} -> Ok(v)
      [] v.t = "solr_date" -> Ok(StrV(solr_date_str(v)))
      [] OTHER -> Fail("AssertionError")

lucene_units ==
    { "YEAR", "YEARS", "MONTH", "MONTHS", "DAY", "DAYS", "DATE", "HOUR", "HOURS",
      "MINUTE", "MINUTES", "SECOND", "SECONDS", "MILLI", "MILLIS", "MILLISECOND",
      "MILLISECONDS" }

LowerLetters == "abcdefghijklmnopqrstuvwxyz"
UpperLetters == "ABCDEFGHIJKLMNOPQRSTUVWXYZ"
IsLetterOf(c, letters) == \E i \in 1..26 : SubSeq(letters, i, i) = c
\* \w, of the characters of the model
IsWord(c) == IsDigit(c) \/ IsLetterOf(c, LowerLetters) \/ IsLetterOf(c, UpperLetters) \/ c = "_"
\* str.upper()
RECURSIVE upper(_)
upper(str) ==
    IF Len(str) = 0 THEN ""
    ELSE LET c == SubSeq(str, 1, 1)
         IN  (IF IsLetterOf(c, LowerLetters)
              THEN LET i == CHOOSE i \in 1..26 : SubSeq(LowerLetters, i, i) = c
                   IN  SubSeq(UpperLetters, i, i)
              ELSE c) \o upper(SubSeq(str, 2, Len(str)))

\* lucene_unit_pattern.match(v), ^([-+])(\d+)(\w+)$: group 3 of the match,
\* None if there is none.  \d+ takes the longest run of digits that leaves a
\* character for \w+.
lucene_unit_pattern_match(v) ==
    IF /\ Len(v) >= 3
       /\ SubSeq(v, 1, 1) \in {"-", "+"}
       /\ IsDigit(SubSeq(v, 2, 2))
       /\ \A i \in 3..Len(v) : IsWord(SubSeq(v, i, i))
    THEN LET digits == CHOOSE k \in 2..Len(v) - 1 :
                          /\ \A i \in 2..k : IsDigit(SubSeq(v, i, i))
                          /\ k = Len(v) - 1 \/ ~IsDigit(SubSeq(v, k + 1, k + 1))
         IN  Some(SubSeq(v, digits + 1, Len(v)))
    ELSE Nothing

\* FacetRangeOptions.__validate_range_gap
validate_range_gap(v) ==
    CASE v.t \in {"int", "bool", "float"} -> Ok(v)
      [] v.t = "str" ->
            LET match == lucene_unit_pattern_match(v.s)
            IN  IF match = Nothing THEN Fail("AssertionError")
                ELSE IF upper(match[1]) \notin lucene_units THEN Fail("AssertionError")
                ELSE Ok(v)
      [] OTHER -> Fail("AssertionError")

\* Options.check_opts with the opts table of FacetRangeOptions, on the
\* options start, end and gap: the checked value of each, or the exception
RangeChecked(opts) ==
    [k \in DOMAIN opts |-> IF k = "gap" THEN validate_range_gap(opts[k])
                           ELSE validate_range_endpoint(opts[k])]
RangeCheckOpts(opts) ==
    IF \E k \in DOMAIN opts : ~RangeChecked(opts)[k].ok THEN Fail("SolrError")
    ELSE Ok([k \in DOMAIN opts |-> RangeChecked(opts)[k].v])

\* the loop of FacetRangeOptions.update over fields.items(): [v, err], v the
\* dictionary self.fields when the loop ends or check_opts raises
RECURSIVE RangeLoop(_, _)
RangeLoop(self_fields, mapping) ==
    IF mapping = << >> THEN [v |-> self_fields, err |-> ""]
    ELSE LET checked_kwargs == RangeCheckOpts(Head(mapping).opts)
         IN  IF ~checked_kwargs.ok
             THEN [v |-> Append(self_fields, [field |-> Head(mapping).field, opts |-> << >>]),
                   err |-> checked_kwargs.err]
             ELSE RangeLoop(Append(self_fields, [field |-> Head(mapping).field,
                                                 opts |-> checked_kwargs.v]),
                            Tail(mapping))

\* "Validate field options": the statements after the loop, where opts is
\* the value the loop variable holds once the loop has ended, the options of
\* the last field.  The exception raised ("" if none).
RangeValidate(opts) ==
    IF ~({"start", "end", "gap"} \subseteq DOMAIN opts) THEN "SolrError"
    ELSE IF ~PyGt(opts["start"], opts["end"]).ok THEN PyGt(opts["start"], opts["end"]).err
    ELSE IF PyGt(opts["start"], opts["end"]).v.b THEN "SolrError"
    ELSE IF IsInt(opts["start"]) /\ ~(IsInt(opts["end"]) /\ IsInt(opts["gap"]))
    THEN "SolrError"
    ELSE IF IsFloat(opts["start"]) /\ ~(IsFloat(opts["end"]) /\ IsFloat(opts["gap"]))
    THEN "SolrError"
    ELSE IF opts["start"].t = "solr_date"
            /\ ~(opts["end"].t = "solr_date" /\ opts["gap"].t = "str")
    THEN "SolrError"
    ELSE ""

\* the statements after the loop, were they inside it: what RangeValidate
\* applied to the last field is not
RangeValidateEach(mapping) ==
    IF \E i \in DOMAIN mapping : RangeValidate(mapping[i].opts) # ""
    THEN RangeValidate(mapping[CHOOSE i \in DOMAIN mapping :
                                  RangeValidate(mapping[i].opts) # ""].opts)
    ELSE ""
RangeValidateLast(mapping) == RangeValidate(Last(mapping).opts)

\* FacetRangeOptions.update(fields) with no keywords: [v, err], v the
\* dictionary self.fields afterwards
FacetRangeOptions_update(mapping) ==
    IF mapping = << >> THEN [v |-> << >>, err |-> ""]
    ELSE IF \E i \in DOMAIN mapping : ~HasField(mapping[i].field)
    THEN [v |-> << >>, err |-> "SolrError"]
    ELSE LET r == RangeLoop(<< >>, mapping)
         IN  IF r.err # "" THEN r
             ELSE [v |-> r.v, err |-> RangeValidateLast(mapping)]

\* searches[i].facet_by_range(fields)
FacetByRange(i, mapping) ==
    /\ nops < budget
    /\ \E newself \in {SolrSearchFrom(heap, searches[i])} :
       \E r \in {FacetRangeOptions_update(mapping)} :
          Builder("facet_by_range", i, mapping, newself.h,
                  [newself.v EXCEPT !.facet_ranger = r.v], r.err)

\* the values of start and end: integers, a float, dates (the third a second
\* object holding the first's datetime) and a string
Endpoints ==
    { IntV(1), IntV(10), FloatV(FALSE, <<1>>, TRUE),
      SolrDateV(1, DatetimeV("2000-01-01", "00:00:00", 0)),
      SolrDateV(2, DatetimeV("2010-12-01", "00:00:00", 0)),
      SolrDateV(3, DatetimeV("2000-01-01", "00:00:00", 0)),
      StrV("foo") }
Gaps ==
    { IntV(2), FloatV(FALSE, << >>, TRUE), StrV("+1YEAR"), StrV("+1EON"),
      StrV("blah blah"), StrV("+12"), StrV("-6months") }

\* the dict with the keys of start, end and gap that are given
RangeOpts(start, end, gap) ==
    LET given == [start |-> start, end |-> end, gap |-> gap]
    IN  [k \in {k \in DOMAIN given : given[k] # Nothing} |-> given[k][1]]
AllRangeOpts ==
    { RangeOpts(start, end, gap) :
        start \in {Some(v) : v \in Endpoints} \cup {Nothing},
        end \in {Some(v) : v \in Endpoints} \cup {Nothing},
        gap \in {Some(v) : v \in Gaps} \cup {Nothing} }
FirstRangeOpts ==
    { RangeOpts(Some(IntV(1)), Some(IntV(10)), Some(IntV(2))),
      RangeOpts(Some(IntV(1)), Some(IntV(10)), Nothing),
      RangeOpts(Some(IntV(10)), Some(IntV(1)), Some(IntV(2))),
      RangeOpts(Some(IntV(1)), Some(FloatV(FALSE, <<1>>, TRUE)), Some(IntV(2))),
      RangeOpts(Some(StrV("foo")), Some(IntV(10)), Some(IntV(2))) }
RangeInputs ==
    { <<[field |-> "int_field", opts |-> opts]>> : opts \in AllRangeOpts }
    \cup { <<[field |-> "int_field", opts |-> first], [field |-> "short_field", opts |-> opts]>> :
             first \in FirstRangeOpts, opts \in AllRangeOpts }

InitFacetRange ==
    /\ \E q \in {LuceneQuery(EmptyHeap, "q")} :
          /\ heap = q.h
          /\ searches = <<SolrSearch(q.v)>>
    /\ cur = 0
    /\ call = [name |-> "", on |-> 0, field |-> ""]
    /\ out = NoResult
    /\ raised = ""
    /\ nops = 0
    /\ budget = 1
    /\ dynamic_field_cache = << >>
    /\ threads = << >>

NextFacetRange ==
    \E mapping \in RangeInputs : FacetByRange(1, mapping)

SpecFacetRange == InitFacetRange /\ [][NextFacetRange]_vars

\* start, end and gap of opts are all integers, all floats, or two dates
\* and a duration
RangeTypes(opts) ==
    \/ \A k \in {"start", "end", "gap"} : opts[k].t = "int"
    \/ \A k \in {"start", "end", "gap"} : opts[k].t = "float"
    \/ /\ opts["start"].t = "solr_date"
       /\ opts["end"].t = "solr_date"
       /\ opts["gap"].t = "str"
       /\ opts["gap"].s \in {"+1YEAR", "-6months"}
\* start <= end, for two values of a kind
RangeOrdered(opts) ==
    IF opts["start"].t = "solr_date"
    THEN ~DatetimeLess(opts["end"]._dt_obj, opts["start"]._dt_obj)
    ELSE Twice(opts["start"]) <= Twice(opts["end"])
RangeValid(opts) ==
    /\ {"start", "end", "gap"} \subseteq DOMAIN opts
    /\ RangeTypes(opts)
    /\ RangeOrdered(opts)

\* C22: facet_by_range succeeds exactly if, for every field of the mapping,
\* start, end and gap are all present, of compatible types, and start <= end.
C22_ValidatedPerField ==
    call.name = "facet_by_range" =>
        (raised = "" <=> \A i \in DOMAIN call.field : RangeValid(call.field[i].opts))

(***************************************************************************)
(* More like this (search.py, MoreLikeThisOptions): the client calls mlt   *)
(* on any search it holds and may read the options of any search it holds. *)
(***************************************************************************)
\* dict.update(items), on a dictionary held as the list of its items
RECURSIVE DictUpdate(_, _)
DictUpdate(d, items) ==
    IF items = << >> THEN d
    ELSE LET item == Head(items)
         IN  DictUpdate(IF \E i \in DOMAIN d : d[i].k = item.k
                        THEN [i \in DOMAIN d |-> IF d[i].k = item.k THEN item ELSE d[i]]
                        ELSE Append(d, item),
                        Tail(items))

\* the loop over query_fields.items() without its first test: what
\* QueryFieldsLoop is not
QueryFieldsUnlisted(self_fields, items) ==
    IF \E i \in DOMAIN items : items[i].v # NoneV /\ ~float(items[i].v).ok
    THEN "SolrError" ELSE ""

\* the loop of MoreLikeThisOptions.update over query_fields.items(), given
\* self.fields: the exception raised ("" if none)
RECURSIVE QueryFieldsLoop(_, _)
QueryFieldsLoop(self_fields, items) ==
    IF items = << >> THEN ""
    ELSE IF Head(items).k \notin self_fields THEN "SolrError"
    ELSE IF Head(items).v # NoneV /\ ~float(Head(items).v).ok THEN "SolrError"
    ELSE QueryFieldsLoop(self_fields, Tail(items))

\* the names of the argument `fields` of mlt: None, a string or a list
MltNames(arg) ==
    IF arg.kind = "None" THEN <<Schema.default_field_name>> ELSE arg.names

\* MoreLikeThisOptions.update(fields, query_fields, **kwargs): [v, err], v
\* the object afterwards; query_fields is Nothing or Some list of items
MoreLikeThisOptions_update(self, arg, query_fields, kwargs) ==
    IF \E i \in DOMAIN MltNames(arg) : ~HasField(MltNames(arg)[i])
    THEN [v |-> self, err |-> "SolrError"]
    ELSE LET listed == [self EXCEPT !.fields = @ \cup Range(MltNames(arg))]
             looped == IF query_fields = Nothing THEN ""
                       ELSE QueryFieldsLoop(listed.fields, query_fields[1])
             boosted == IF query_fields = Nothing THEN listed
                        ELSE [listed EXCEPT !.query_fields = DictUpdate(@, query_fields[1])]
         IN  IF looped # "" THEN [v |-> listed, err |-> looped]
             ELSE IF check_opts("mlt", kwargs) # ""
             THEN [v |-> boosted, err |-> check_opts("mlt", kwargs)]
             ELSE [v |-> [boosted EXCEPT !.kwargs =
                            [k \in {kwargs[i].k : i \in DOMAIN kwargs} |->
                                CheckedValue("mlt", kwargs[CHOOSE i \in DOMAIN kwargs :
                                                              kwargs[i].k = k])] @@ @],
                   err |-> ""]

\* searches[i].mlt(fields, query_fields, **kwargs)
Mlt(i, input) ==
    /\ nops < budget
    /\ \E newself \in {SolrSearchFrom(heap, searches[i])} :
       \E r \in {MoreLikeThisOptions_update(newself.v.more_like_this, input.fields,
                                            input.query_fields, input.kwargs)} :
          Builder("mlt", i, input, newself.h,
                  [newself.v EXCEPT !.more_like_this = r.v], r.err)

MltArg(kind, names) == [kind |-> kind, names |-> names]
MltIn(arg, query_fields, kwargs) ==
    [fields |-> arg, query_fields |-> query_fields, kwargs |-> kwargs]
Boost(k, v) == [k |-> k, v |-> v]
Half == FloatV(FALSE, << >>, TRUE)
MltInputs ==
    { MltIn(MltArg("None", << >>), Nothing, << >>),
      MltIn(MltArg("str", <<"int_field">>), Nothing, <<[k |-> "count", v |-> IntV(3)]>>),
      MltIn(MltArg("str", <<"nofield">>), Nothing, << >>),
      MltIn(MltArg("list", << >>), Some(<< >>), << >>),
      MltIn(MltArg("str", <<"text_field">>), Some(<<Boost("text_field", Half)>>), << >>),
      MltIn(MltArg("str", <<"text_field">>),
            Some(<<Boost("text_field", Half), Boost("string_field", IntV(2))>>), << >>),
      MltIn(MltArg("list", <<"text_field", "string_field">>),
            Some(<<Boost("string_field", IntV(2)), Boost("text_field", NoneV)>>), << >>),
      MltIn(MltArg("list", << >>), Some(<<Boost("string_field", StrV("3"))>>), << >>),
      MltIn(MltArg("list", << >>), Some(<<Boost("int_field", NoneV)>>), << >>),
      MltIn(MltArg("str", <<"text_field">>), Some(<<Boost("text_field", StrV("a"))>>), << >>),
      MltIn(MltArg("str", <<"string_field">>), Some(<<Boost("string_field", Half)>>),
            <<[k |-> "oops", v |-> BoolV(TRUE)]>>) }

NextMlt ==
    \/ \E i \in DOMAIN searches, input \in MltInputs : Mlt(i, input)
    \/ \E i \in DOMAIN searches : ReadOptions(i)

SpecMlt == InitSearch /\ [][NextMlt]_vars

\* str.split(sep), sep one character
RECURSIVE Split(_, _, _)
Split(str, sep, word) ==
    IF Len(str) = 0 THEN <<word>>
    ELSE IF SubSeq(str, 1, 1) = sep THEN <<word>> \o Split(SubSeq(str, 2, Len(str)), sep, "")
    ELSE Split(SubSeq(str, 2, Len(str)), sep, word \o SubSeq(str, 1, 1))

\* the fields s.options() emits as mlt.fl, and those it boosts in mlt.qf
ListedIn(options) ==
    IF "mlt.fl" \in DOMAIN options THEN Range(Split(options["mlt.fl"].s, ",", "")) ELSE {}
BoostedIn(options) ==
    IF "mlt.qf" \in DOMAIN options
    THEN {Split(word, "^", "")[1] : word \in Range(Split(options["mlt.qf"].s, " ", ""))}
    ELSE {}

\* the keys of the query_fields of the step's mlt call, and the field list
\* accumulated by the receiver and the call
BoostedByCall ==
    IF call'.field.query_fields = Nothing THEN {}
    ELSE {call'.field.query_fields[1][i].k : i \in DOMAIN call'.field.query_fields[1]}
AccumulatedByCall ==
    ListedIn(OptionsIn(heap, Receiver).v)
        \cup (IF call'.field.fields.kind = "None" THEN {"text_field"}
              ELSE Range(call'.field.fields.names))

\* C23: an mlt call whose query_fields names a field outside the field list
\* accumulated so far (this call's fields included) raises and adds no
\* search; and of every search held, the fields boosted in mlt.qf are among
\* those listed in mlt.fl.
C23_BoostsWithinFieldList ==
    /\ [](\A i \in DOMAIN searches :
             BoostedIn(OptionsIn(heap, searches[i]).v)
                \subseteq ListedIn(OptionsIn(heap, searches[i]).v))
    /\ [][ (nops' = nops + 1 /\ call'.name = "mlt"
              /\ ~(BoostedByCall \subseteq AccumulatedByCall)) =>
                 (raised' # "" /\ searches' = searches) ]_vars

\* a search boosts two fields, one of them listed by an earlier call
C23_Witness ==
    /\ call.name = "mlt"
    /\ raised = ""
    /\ call.on > 1
    /\ BoostedIn(OptionsIn(heap, Last(searches)).v) = {"string_field", "text_field"}
    /\ "text_field" \notin ListedIn(OptionsIn(heap, searches[call.on]).v)

(***************************************************************************)
(* The order of the clauses of a node (search.py, serialize_to_unicode):   *)
(* the client makes one query Q(children, values, keywords), with or      *)
(* without __terms_or_phrases, from up to two sub-queries, two positional  *)
(* values and two keywords in any order, and converts it to a string.      *)
(***************************************************************************)
\* the sequences of at most two distinct elements of S
UpToTwo(S) ==
    {<< >>} \cup {<<a>> : a \in S}
        \cup ({<<a, b>> : a \in S, b \in S} \ {<<a, a>> : a \in S})

ClauseValues == {"abc", "xyz", "hello world"}
ClauseKwargs ==
    { KwArg(<<"short_field">>, IntV(3)),
      KwArg(<<"string_field">>, StrV("hello world")),
      KwArg(<<"short_field", "gt">>, IntV(3)),
      KwArg(<<"short_field", "lt">>, IntV(1)),
      KwArg(<<"text_field", "gte">>, StrV("abc")) }
\* the sub-queries: Q('def'), Q('def') | Q('abc'), ~Q('xyz')
ClauseChildren == {"and", "or", "not"}
TermsOrPhrases == {None, "terms", "phrases"}

\* the words of the leaves that the sub-query of a kind is made of
LeafWords(kind) ==
    IF kind = "and" THEN <<"def">>
    ELSE IF kind = "or" THEN <<"def", "abc">>
    ELSE <<"xyz">>
AllLeafWords(kinds) ==
    IF Len(kinds) = 0 THEN << >>
    ELSE IF Len(kinds) = 1 THEN LeafWords(kinds[1])
    ELSE LeafWords(kinds[1]) \o LeafWords(kinds[2])

\* Q(words[j]), if there is a j-th word: [h, v], v the list of it
LeafAt(h, words, j) ==
    IF j > Len(words) THEN Ret(h, << >>)
    ELSE LET q == Leaf(h, words[j]) IN Ret(q.h, <<q.v>>)

\* the sub-query of a kind, of the leaves from the position `from` on
ChildQuery(h, kind, leaves, from) ==
    IF kind = "and" THEN Ret(h, leaves[from])
    ELSE IF kind = "or" THEN __or__(h, leaves[from], leaves[from + 1])
    ELSE __invert__(h, leaves[from])

\* the j-th sub-query of the kinds named, if there is one: [h, v], v the
\* list of it
ChildAt(h, kinds, j, leaves) ==
    IF j > Len(kinds) THEN Ret(h, << >>)
    ELSE LET c == ChildQuery(h, kinds[j], leaves,
                             IF j = 1 THEN 1 ELSE Len(LeafWords(kinds[1])) + 1)
         IN  Ret(c.h, <<c.v>>)

InitClauses ==
    /\ heap = EmptyHeap
    /\ cur = 0
    /\ searches = << >>
    /\ call = [name |-> ""]
    /\ out = NoResult
    /\ raised = ""
    /\ nops = 0
    /\ budget = 1
    /\ dynamic_field_cache = << >>
    /\ threads = << >>

\* cur = Q(children..., values..., __terms_or_phrases=tp, keywords...);
\* str(cur)
RenderClauses(children, values, kwargs, tp) ==
    /\ nops < budget
    /\ \E l1 \in {LeafAt(heap, AllLeafWords(children), 1)} :
       \E l2 \in {LeafAt(l1.h, AllLeafWords(children), 2)} :
       \E l3 \in {LeafAt(l2.h, AllLeafWords(children), 3)} :
       \E c1 \in {ChildAt(l3.h, children, 1, l1.v \o l2.v \o l3.v)} :
       \E c2 \in {ChildAt(c1.h, children, 2, l1.v \o l2.v \o l3.v)} :
       \E q \in {Q(c2.h, [queries |-> c1.v \o c2.v,
                          values |-> [i \in DOMAIN values |-> StrV(values[i])]],
                   [top |-> tp, items |-> kwargs])} :
       \E r \in {__str__(q.h, q.v)} :
          /\ heap' = r.h
          /\ cur' = q.v
          /\ out' = [v |-> r.v, err |-> r.err]
          /\ raised' = IF q.err # "" THEN q.err ELSE r.err
    /\ call' = [name |-> "Q", children |-> children, values |-> values,
                kwargs |-> kwargs, tp |-> tp]
    /\ nops' = nops + 1
    /\ UNCHANGED <<searches, budget, resolver>>

NextClauses ==
    \E children \in UpToTwo(ClauseChildren), values \in UpToTwo(ClauseValues),
       kwargs \in UpToTwo(ClauseKwargs), tp \in TermsOrPhrases :
          RenderClauses(children, values, kwargs, tp)

SpecClauses == InitClauses /\ [][NextClauses]_vars

\* the strings of S in Python's order
RECURSIVE InOrder(_)
InOrder(S) ==
    IF S = {} THEN << >>
    ELSE LET m == CHOOSE x \in S : \A y \in S : StrRank(x) <= StrRank(y)
         IN  <<m>> \o InOrder(S \ {m})

\* whether a text value of the call is a term or a phrase: as the call says,
\* or a term if it is one word
GroupOf(v) ==
    IF call.tp # None THEN call.tp
    ELSE IF v = "hello world" THEN "phrases" ELSE "terms"
TextOf(v) == IF v = "hello world" THEN "hello\\ world" ELSE v

\* the clauses of a group the arguments of the call stand for: the
\* positional values, string_field='hello world', short_field=3 (not a text
\* field: a term), and the 'def' of the sub-query Q('def'), a term of it
GroupClauses(group) ==
    {TextOf(v) : v \in {v \in Range(call.values) : GroupOf(v) = group}}
    \cup (IF /\ KwArg(<<"string_field">>, StrV("hello world")) \in Range(call.kwargs)
             /\ GroupOf("hello world") = group
          THEN {"string_field:hello\\ world"} ELSE {})
    \cup (IF KwArg(<<"short_field">>, IntV(3)) \in Range(call.kwargs) /\ group = "terms"
          THEN {"short_field:3"} ELSE {})
    \cup (IF "and" \in Range(call.children) /\ group = "terms" THEN {"def"} ELSE {})

\* the range clauses, by field name, then relation
RangeTexts ==
    << [kw |-> KwArg(<<"short_field", "gt">>, IntV(3)), text |-> "short_field:{3 TO *}"],
       [kw |-> KwArg(<<"short_field", "lt">>, IntV(1)), text |-> "short_field:{* TO 1}"],
       [kw |-> KwArg(<<"text_field", "gte">>, StrV("abc")), text |-> "text_field:[abc TO *]"] >>
RangeClauses ==
    LET given == SelectSeq(RangeTexts, LAMBDA r : r.kw \in Range(call.kwargs))
    IN  [i \in DOMAIN given |-> given[i].text]

\* the clauses of the sub-queries that stay sub-queries, in the order given
ChildClauses ==
    LET kept == SelectSeq(call.children, LAMBDA c : c # "and")
    IN  [i \in DOMAIN kept |-> IF kept[i] = "or" THEN "(def OR abc)" ELSE "NOT xyz"]

ClausesInOrder ==
    InOrder(GroupClauses("terms")) \o InOrder(GroupClauses("phrases"))
        \o RangeClauses \o ChildClauses

\* C24: a query serializes as its term clauses in sorted order, then its
\* phrase clauses in sorted order, then its range clauses by field name and
\* relation, then its sub-queries in the order given, joined by AND; a value
\* of a field that is not a text field is a term whatever the call says.  (A
\* query that is nothing but one sub-query is that sub-query.)
C24_ClauseOrder ==
    call.name = "Q" =>
        /\ out.err = ""
        /\ out.v = IF ClausesInOrder = <<"(def OR abc)">> THEN "def OR abc"
                   ELSE Join(ClausesInOrder, " AND ")

\* a query with two terms, a phrase, two ranges and a sub-query, the terms
\* and the ranges given in the other order
C24_Witness ==
    /\ call.name = "Q"
    /\ call.children = <<"or", "and">>
    /\ call.values = <<"hello world", "abc">>
    /\ call.kwargs = <<KwArg(<<"short_field", "lt">>, IntV(1)),
                       KwArg(<<"short_field", "gt">>, IntV(3))>>
    /\ out.v = "abc AND def AND hello\\ world AND short_field:{3 TO *}"
                  \o " AND short_field:{* TO 1} AND (def OR abc)"

(***************************************************************************)
(* Pagination (search.py, PaginateOptions): the client calls paginate on   *)
(* any search it holds and may read the options of any search it holds.    *)
(***************************************************************************)
\* PaginateOptions.update without its tests: what PaginateOptions_update is
\* not
PaginateUnchecked(self, start, rows) ==
    [v |-> [start |-> IF start # Nothing THEN start ELSE self.start,
            rows  |-> IF rows # Nothing THEN rows ELSE self.rows],
     err |-> ""]

\* PaginateOptions.update(start, rows): [v, err], v the object afterwards
PaginateOptions_update(self, start, rows) ==
    IF start # Nothing /\ start[1] < 0 THEN [v |-> self, err |-> "SolrError"]
    ELSE LET started == IF start # Nothing THEN [self EXCEPT !.start = start] ELSE self
         IN  IF rows # Nothing /\ rows[1] < 0 THEN [v |-> started, err |-> "SolrError"]
             ELSE [v |-> IF rows # Nothing THEN [started EXCEPT !.rows = rows] ELSE started,
                   err |-> ""]

\* searches[i].paginate(start, rows)
Paginate(i, start, rows) ==
    /\ nops < budget
    /\ \E newself \in {SolrSearchFrom(heap, searches[i])} :
       \E r \in {PaginateOptions_update(newself.v.paginator, start, rows)} :
          Builder("paginate", i, [start |-> start, rows |-> rows], newself.h,
                  [newself.v EXCEPT !.paginator = r.v], r.err)

PageValues == {Nothing, Some(-1), Some(0), Some(5)}

NextPaginate ==
    \/ \E i \in DOMAIN searches, start \in PageValues, rows \in PageValues :
          Paginate(i, start, rows)
    \/ \E i \in DOMAIN searches : ReadOptions(i)

SpecPaginate == InitSearch /\ [][NextPaginate]_vars

\* the option k of the search s as s.options() emits it: Nothing if absent
EmittedOf(h, s, k) ==
    LET options == OptionsIn(h, s).v
    IN  IF k \in DOMAIN options THEN Some(options[k].n) ELSE Nothing

\* C25: options() of every search emits start and rows only when set, and
\* never negative; paginate with a negative start or rows raises and adds
\* no search; any other paginate returns a search with the start and rows
\* given, and with the receiver's for an argument left None.
C25_PaginationNonNegative ==
    /\ [](\A i \in DOMAIN searches : \A k \in {"start", "rows"} :
             /\ EmittedOf(heap, searches[i], k) = searches[i].paginator[k]
             /\ EmittedOf(heap, searches[i], k) # Nothing =>
                    EmittedOf(heap, searches[i], k)[1] >= 0)
    /\ [][ (nops' = nops + 1 /\ call'.name = "paginate") =>
              IF \E k \in {"start", "rows"} :
                    call'.field[k] # Nothing /\ call'.field[k][1] < 0
              THEN raised' # "" /\ searches' = searches
              ELSE /\ raised' = ""
                   /\ Len(searches') = Len(searches) + 1
                   /\ \A k \in {"start", "rows"} :
                         EmittedOf(heap', Last(searches'), k) =
                            IF call'.field[k] # Nothing THEN call'.field[k]
                            ELSE EmittedOf(heap, Receiver, k) ]_vars

\* paginate(rows=5) on a search with a start kept the start; before it,
\* a paginate with a valid start and a negative rows had failed
C25_Witness ==
    /\ call.name = "paginate"
    /\ raised = ""
    /\ call.field = [start |-> Nothing, rows |-> Some(5)]
    /\ EmittedOf(heap, Last(searches), "start") = Some(5)
    /\ EmittedOf(heap, Last(searches), "rows") = Some(5)
    /\ EmittedOf(heap, searches[call.on], "rows") = Nothing

(***************************************************************************)
(* Indexing a paginated search (search.py): BaseSearch.__getitem__ with a  *)
(* slice or a single index, on a search that paginate(start, rows) made,   *)
(* and whose query matches numFound documents.                             *)
(***************************************************************************)
MaxWindowIndex == 8     \* largest index and slice bound in SpecWindow

\* BaseSearch.__getitem__(k) for a single index k: [fetches, docs, err],
\* docs holding the document returned
getindex(paginator, numFound, k) ==
    LET offset == IF paginator.start = Nothing THEN 0 ELSE paginator.start[1]
        total == count(paginator, numFound)
        counted == IF k < 0 THEN total.fetches ELSE << >>
        at == (IF k < 0 THEN k + total.v ELSE k) + offset
        docs == Search(numFound, at, 1)
    IN  IF k < 0 /\ k + total.v < 0
        THEN [fetches |-> counted, docs |-> << >>, err |-> "IndexError"]
        ELSE [fetches |-> counted \o <<Request(Some(at), Some(1))>>,
              docs    |-> IF numFound < at \/ Len(docs) = 0 THEN << >> ELSE <<docs[1]>>,
              err     |-> IF numFound < at \/ Len(docs) = 0 THEN "IndexError" ELSE ""]

WindowStarts == {0, 2, 10}
WindowRows == {0, 3, 5}
Windows == {[start |-> Some(o), rows |-> Some(r)] : o \in WindowStarts, r \in WindowRows}

InitWindow ==
    /\ heap = EmptyHeap
    /\ cur = 0
    /\ searches = << >>
    /\ call = [name |-> "", numFound |-> 0, paginator |-> Unpaginated,
               k |-> [start |-> Nothing, stop |-> Nothing, step |-> Nothing],
               index |-> 0]
    /\ out = NoResult
    /\ raised = ""
    /\ nops = 0
    /\ budget = 1
    /\ dynamic_field_cache = << >>
    /\ threads = << >>

\* response = search.paginate(o, r)[a:b]
GetWindowSlice(paginator, numFound, a, b) ==
    /\ nops < budget
    /\ nops' = nops + 1
    /\ \E r \in {getitem(paginator, numFound,
                         [start |-> Some(a), stop |-> Some(b), step |-> Nothing])} :
          /\ out' = [fetches |-> r.fetches, docs |-> r.docs]
          /\ raised' = r.err
    /\ call' = [name |-> "slice", numFound |-> numFound, paginator |-> paginator,
                k |-> [start |-> Some(a), stop |-> Some(b), step |-> Nothing],
                index |-> 0]
    /\ UNCHANGED <<heap, cur, searches, budget, resolver>>

\* doc = search.paginate(o, r)[k]
GetWindowIndex(paginator, numFound, k) ==
    /\ nops < budget
    /\ nops' = nops + 1
    /\ \E r \in {getindex(paginator, numFound, k)} :
          /\ out' = [fetches |-> r.fetches, docs |-> r.docs]
          /\ raised' = r.err
    /\ call' = [name |-> "index", numFound |-> numFound, paginator |-> paginator,
                k |-> [start |-> Nothing, stop |-> Nothing, step |-> Nothing],
                index |-> k]
    /\ UNCHANGED <<heap, cur, searches, budget, resolver>>

NextWindow ==
    \/ \E paginator \in Windows, numFound \in NumFounds,
          a \in 0..MaxWindowIndex, b \in 0..MaxWindowIndex :
          a <= b /\ GetWindowSlice(paginator, numFound, a, b)
    \/ \E paginator \in Windows, numFound \in NumFounds,
          k \in -2..MaxWindowIndex : GetWindowIndex(paginator, numFound, k)

SpecWindow == InitWindow /\ [][NextWindow]_vars

\* the window of the call's search: the positions from, and before, of the
\* whole result
WindowFrom == call.paginator.start[1]
WindowEnd == call.paginator.start[1] + call.paginator.rows[1]

\* C26: a slice [a:b] with 0 <= a <= b of a search paginated with start = o
\* and rows = r requests no position outside o .. o + r - 1, and a single
\* index k >= r returns no document.
C26_WithinWindow ==
    /\ call.name = "slice" =>
          \A j \in DOMAIN out.fetches :
             \/ out.fetches[j].rows[1] = 0
             \/ /\ WindowFrom <= out.fetches[j].start[1]
                /\ out.fetches[j].start[1] + out.fetches[j].rows[1] <= WindowEnd
    /\ call.name = "index" /\ call.index >= call.paginator.rows[1] =>
          /\ raised = "IndexError"
          /\ out.docs = << >>

\* what holds instead: the slice requests min(b - a, r) documents from
\* o + a on, and the index k >= 0 the document at o + k of the whole result
C26_Shifted ==
    /\ call.name = "slice" =>
          /\ raised = ""
          /\ out.fetches =
                <<Request(Some(WindowFrom + call.k.start[1]),
                          Some(Min(call.k.stop[1] - call.k.start[1],
                                   call.paginator.rows[1])))>>
    /\ call.name = "index" /\ call.index >= 0 =>
          IF WindowFrom + call.index < call.numFound
          THEN raised = "" /\ out.docs = <<WindowFrom + call.index>>
          ELSE raised = "IndexError"

(***************************************************************************)
(* Reading the options (search.py): the client limits the fields of any    *)
(* search it holds, adds to its query, and reads the options of any search *)
(* it holds.                                                               *)
(***************************************************************************)
\* schema.check_fields(field_names, {"stored": True}): the exception it
\* raises ("" if none)
RECURSIVE StoredFieldsError(_, _)
StoredFieldsError(field_names, undefined) ==
    IF field_names = << >> THEN (IF undefined THEN "SolrError" ELSE "")
    ELSE IF ~HasField(Head(field_names)) THEN StoredFieldsError(Tail(field_names), TRUE)
    ELSE IF ~match_field(Head(field_names)).stored THEN "SolrError"
    ELSE StoredFieldsError(Tail(field_names), undefined)

\* FieldLimitOptions.update(fields, score, all_fields), fields the list of
\* names (empty for None): [v, err], v the object afterwards
FieldLimitOptions_update(self, field_names, score, all_fields) ==
    IF StoredFieldsError(field_names, FALSE) # ""
    THEN [v |-> self, err |-> StoredFieldsError(field_names, FALSE)]
    ELSE [v |-> [fields |-> self.fields \cup Range(field_names), score |-> score,
                 all_fields |-> all_fields],
          err |-> ""]

\* searches[i].field_limit(fields, score, all_fields)
FieldLimit(i, input) ==
    /\ nops < budget
    /\ \E newself \in {SolrSearchFrom(heap, searches[i])} :
       \E r \in {FieldLimitOptions_update(newself.v.field_limiter, input.fields,
                                          input.score, input.all_fields)} :
          Builder("field_limit", i, input, newself.h,
                  [newself.v EXCEPT !.field_limiter = r.v], r.err)

FieldLimitInputs ==
    { [fields |-> f, score |-> sc, all_fields |-> FALSE] :
         f \in {<< >>, <<"int_field">>, <<"string_field">>}, sc \in BOOLEAN }
    \cup { [fields |-> <<"int_field">>, score |-> sc, all_fields |-> TRUE] : sc \in BOOLEAN }
    \cup { [fields |-> f, score |-> TRUE, all_fields |-> FALSE] :
              f \in {<<"nofield">>, <<"long_field">>} }

ReadInputs == { In("", <<StrV("abc")>>, << >>), In("def", << >>, << >>) }

NextRead ==
    \/ \E i \in DOMAIN searches, input \in FieldLimitInputs : FieldLimit(i, input)
    \/ \E i \in DOMAIN searches, input \in ReadInputs : Query(i, input)
    \/ \E i \in DOMAIN searches : ReadOptions(i)

SpecRead == InitSearch /\ [][NextRead]_vars

\* the names in the option fl of the search s
LimitedTo(h, s) ==
    LET options == OptionsIn(h, s).v
    IN  IF "fl" \in DOMAIN options THEN Range(Split(options["fl"].s, ",", "")) ELSE {}

\* C27: options() on a search leaves what options() returns as it was, for
\* every search held; and the search a field_limit returns has 'score' in
\* its fl only if that call asked for the score.
C27_ReadOnlyOptions ==
    [][ /\ (nops' = nops + 1 /\ call'.name = "options") =>
              /\ \A j \in DOMAIN searches :
                    OptionsIn(heap', searches'[j]) = OptionsIn(heap, searches[j])
        /\ Returns({"field_limit"}) =>
              ("score" \in LimitedTo(heap', Last(searches')) => call'.field.score) ]_vars

\* what holds instead: only the field limiter of the search read changes,
\* by the name 'score' added to its fields; no options() changes by it, and
\* the search a field_limit returns has 'score' in its fl only if the call
\* asked for it or the receiver's options were read while asking for it
C27_ScoreSticks ==
    [][ /\ (nops' = nops + 1 /\ call'.name = "options") =>
              /\ \A j \in DOMAIN searches :
                    /\ OptionsIn(heap', searches'[j]) = OptionsIn(heap, searches[j])
                    /\ [searches'[j] EXCEPT !.field_limiter = searches[j].field_limiter]
                          = searches[j]
                    /\ searches'[j] # searches[j] =>
                          /\ j = call'.on
                          /\ searches[j].field_limiter.score
                          /\ searches'[j].field_limiter.fields
                                = searches[j].field_limiter.fields \cup {"score"}
        /\ Returns({"field_limit"}) =>
              ("score" \in LimitedTo(heap', Last(searches')) =>
                  \/ call'.field.score
                  \/ "score" \in Receiver.field_limiter.fields) ]_vars

(***************************************************************************)
(* Filters (search.py, FilterOptions): the client calls query and filter,  *)
(* also without arguments and with an empty sub-query, on any search it    *)
(* holds and may read the options of any search it holds.                  *)
(***************************************************************************)
\* searches[i].filter(self.Q(), *values): a filter call whose first
\* argument is an empty sub-query
FilterEmpty(i, values) ==
    /\ nops < budget
    /\ \E sub \in {Leaf(heap, "")} :
       \E newself \in {SolrSearchFrom(sub.h, searches[i])} :
       \E fq_filter \in {LuceneQuery(newself.h, None)} :
       \E r \in {add(fq_filter.h, fq_filter.v,
                     [queries |-> <<sub.v>>, values |-> values], NoKwargs)} :
          Builder("filter", i, "", r.h,
                  [newself.v EXCEPT !.filters = Append(@, fq_filter.v)], r.v)

FiltersQueryInputs == { In("", <<StrV("abc")>>, << >>), In("", << >>, << >>) }
FiltersInputs ==
    { In("", <<StrV("abc")>>, << >>),
      In("", << >>, << >>),
      In("def", << >>, << >>),
      In("", <<StrV("abc")>>, <<KwArg(<<"string_field">>, StrV("abc"))>>) }

NextFilters ==
    \/ \E i \in DOMAIN searches, input \in FiltersQueryInputs : Query(i, input)
    \/ \E i \in DOMAIN searches, input \in FiltersInputs : Filter(i, input)
    \/ \E i \in DOMAIN searches, values \in {<< >>, <<StrV("abc")>>} : FilterEmpty(i, values)
    \/ \E i \in DOMAIN searches : ReadOptions(i)

SpecFilters == InitSearch /\ [][NextFilters]_vars

\* the values of fq in what s.options() returns: none without the key
FqOf(h, s) ==
    LET options == OptionsIn(h, s).v
    IN  IF "fq" \in DOMAIN options THEN options["fq"].l ELSE << >>

\* C28: options() of every search built by query and filter calls returns
\* without error, and a filter call returns a search whose fq holds the
\* receiver's values, in their order, and one more after them.
C28_OneFilterPerCall ==
    /\ [](\A i \in DOMAIN searches : OptionsIn(heap, searches[i]).err = "")
    /\ [][ Returns({"filter"}) =>
              /\ Len(FqOf(heap', Last(searches'))) = Len(FqOf(heap, Receiver)) + 1
              /\ SubSeq(FqOf(heap', Last(searches')), 1, Len(FqOf(heap, Receiver)))
                    = FqOf(heap, Receiver) ]_vars

\* the filter f serializes to the empty string
EmptyFilter(h, f) == None \notin DOMAIN LuceneQuery_options(h, f).v

\* what holds instead: options() raises KeyError exactly for a search with
\* a filter that serializes to the empty string, and otherwise fq holds
\* one value per filter call, a filter call adding one after the receiver's
C28_NonEmptyFilters ==
    /\ [](\A i \in DOMAIN searches :
             /\ OptionsIn(heap, searches[i]).err =
                   IF \E j \in DOMAIN searches[i].filters :
                         EmptyFilter(heap, searches[i].filters[j])
                   THEN "KeyError" ELSE ""
             /\ OptionsIn(heap, searches[i]).err = "" =>
                   Len(FqOf(heap, searches[i])) = Len(searches[i].filters))
    /\ [][ /\ Returns({"filter"})
           /\ OptionsIn(heap', Last(searches')).err = ""
           => FqOf(heap, Receiver) =
                 SubSeq(FqOf(heap', Last(searches')), 1, Len(FqOf(heap, Receiver))) ]_vars

(***************************************************************************)
(* The MoreLikeThis handler search (search.py, MltSolrSearch): the client  *)
(* constructs searches from a content, a url, both or neither, calls the   *)
(* builders of BaseSearch and the ones MltSolrSearch overrides on any      *)
(* search it holds, and may read the options of any search it holds.       *)
(***************************************************************************)
\* a constructor that takes a content and a url together: what
\* MltSolrSearch is not
MltSolrSearchBoth(h, content, url) ==
    LET q == LuceneQuery(h, "q")
    IN  [h |-> q.h, v |-> [content |-> content, url |-> url] @@ SolrSearch(q.v), err |-> ""]

\* MltSolrSearch.__init__ with original=None: [h, v, err].  The content is
\* text of ASCII characters, whose utf-8 encoding has the same characters.
MltSolrSearch(h, content, url) ==
    IF content # None /\ url # None
    THEN [h |-> h, v |-> << >>, err |-> "ValueError"]
    ELSE LET q == LuceneQuery(h, "q")
         IN  [h |-> q.h, v |-> [content |-> content, url |-> url] @@ SolrSearch(q.v),
              err |-> ""]

\* MoreLikeThisHandlerOptions.options
MoreLikeThisHandlerOptions_options(self) ==
    (IF self.fields # {} THEN "mlt.fl" :> StrV(Join(sorted(self.fields), ",")) ELSE << >>)
    @@ (IF self.query_fields # << >>
        THEN "mlt.qf" :> StrV(Join([i \in DOMAIN self.query_fields |->
                 IF self.query_fields[i].v = NoneV THEN self.query_fields[i].k
                 ELSE self.query_fields[i].k \o "^"
                         \o float_str(float(self.query_fields[i].v).v)], " "))
        ELSE << >>)
    @@ DictOf({[k |-> "mlt." \o o, v |-> self.kwargs[o]] : o \in DOMAIN self.kwargs})

\* MltSolrSearch.options: BaseSearch.options, which adds no default q, and
\* the url: [h, v, err]
MltOptionsMerge(h, self, q, f) ==
    (IF self.url # None THEN "stream.url" :> StrV(self.url) ELSE << >>)
    @@ self.extra
    @@ FieldLimitOptions_options(self.field_limiter).opts
    @@ SortOptions_options(self.sorter)
    @@ FacetRangeOptions_options(self.facet_ranger)
    @@ Options_options(h, "facet", self.faceter)
    @@ Options_options(h, "hl", self.highlighter)
    @@ MoreLikeThisHandlerOptions_options(self.more_like_this)
    @@ PaginateOptions_options(self.paginator)
    @@ f @@ [k \in DOMAIN q |-> StrV(q[k])]
MltOptionsFilters(self, q, f) ==
    IF f.err # "" THEN [h |-> f.h, v |-> << >>, err |-> f.err]
    ELSE [h |-> f.h, v |-> MltOptionsMerge(f.h, self, q, f.v), err |-> ""]
MltSolrSearch_options(h, self) ==
    LET q == LuceneQuery_options(h, self.query_obj)
    IN  IF q.err # "" THEN q
        ELSE MltOptionsFilters(self, q.v, FilterOptions_options(FilterStrings(q.h, self.filters)))

\* the test each overriding method starts with
HasContent(self) == self.content # None \/ self.url # None

\* MltSolrSearch(interface, content=content, url=url)
Construct(content, url) ==
    /\ nops < budget
    /\ \E r \in {MltSolrSearch(heap, content, url)} :
          Builder("MltSolrSearch", 0, [content |-> content, url |-> url], r.h, r.v, r.err)

\* searches[i].query / query_by_term / query_by_phrase(*args, **kwargs)
MltQuery(i, name, input) ==
    /\ nops < budget
    /\ IF HasContent(searches[i])
       THEN Builder(name, i, "", heap, searches[i], "ValueError")
       ELSE \E sub \in {SubQuery(heap, input)} :
            \E newself \in {SolrSearchFrom(sub.h, searches[i])} :
            \E r \in {add(newself.h, newself.v.query_obj,
                          [queries |-> sub.v, values |-> input.values],
                          [top |-> IF name = "query_by_term" THEN "terms"
                                   ELSE IF name = "query_by_phrase" THEN "phrases"
                                   ELSE None,
                           items |-> input.items])} :
               Builder(name, i, "", r.h, newself.v, r.v)

\* searches[i].exclude(*args, **kwargs)
MltExclude(i, input) ==
    IF HasContent(searches[i])
    THEN nops < budget /\ Builder("exclude", i, "", heap, searches[i], "ValueError")
    ELSE Exclude(i, input)

\* searches[i].boost_relevancy(boost_score, **kwargs)
MltBoostRelevancy(i, boost_score, items) ==
    IF HasContent(searches[i])
    THEN nops < budget /\ Builder("boost_relevancy", i, "", heap, searches[i], "ValueError")
    ELSE BoostRelevancy(i, boost_score, items)

\* searches[i].Q(*args, **kwargs): the query made is left in cur
MltQ(i, input) ==
    /\ nops < budget
    /\ IF HasContent(searches[i])
       THEN /\ raised' = "ValueError"
            /\ UNCHANGED <<heap, cur>>
       ELSE \E q \in {Q(heap, [queries |-> << >>, values |-> input.values],
                              [top |-> None, items |-> input.items])} :
               /\ heap' = q.h
               /\ cur' = q.v
               /\ raised' = q.err
    /\ call' = [name |-> "Q", on |-> i, field |-> ""]
    /\ out' = NoResult
    /\ nops' = nops + 1
    /\ UNCHANGED <<searches, budget, resolver>>

\* searches[i].options()
ReadMltOptions(i) ==
    /\ nops < budget
    /\ \E r \in {MltSolrSearch_options(heap, searches[i])} :
          /\ heap' = r.h
          /\ out' = [v |-> r.v, err |-> r.err]
          /\ raised' = r.err
          /\ searches' = IF r.err # "" THEN searches
                         ELSE [searches EXCEPT ![i].field_limiter =
                                  FieldLimitOptions_options(@).v]
    /\ call' = [name |-> "options", on |-> i, field |-> ""]
    /\ nops' = nops + 1
    /\ UNCHANGED <<cur, budget, resolver>>

Contents == {None, "This is the posted content."}
Urls == {None, "http://example.com/"}
HandlerInputs == { In("", <<StrV("abc")>>, << >>), In("", << >>, << >>) }
HandlerMltInputs ==
    { MltIn(MltArg("str", <<"text_field">>), Nothing, << >>),
      MltIn(MltArg("str", <<"text_field">>), Some(<<Boost("text_field", Half)>>), << >>) }
QueryNames == {"query", "query_by_term", "query_by_phrase"}

InitHandler ==
    /\ heap = EmptyHeap
    /\ searches = << >>
    /\ cur = 0
    /\ call = [name |-> "", on |-> 0, field |-> ""]
    /\ out = NoResult
    /\ raised = ""
    /\ nops = 0
    /\ budget = MaxSearchOps
    /\ dynamic_field_cache = << >>
    /\ threads = << >>

NextHandler ==
    \/ \E content \in Contents, url \in Urls : Construct(content, url)
    \/ \E i \in DOMAIN searches, name \in QueryNames, input \in HandlerInputs :
          MltQuery(i, name, input)
    \/ \E i \in DOMAIN searches, input \in HandlerInputs : MltExclude(i, input)
    \/ \E i \in DOMAIN searches, items \in BoostInputs : MltBoostRelevancy(i, 2, items)
    \/ \E i \in DOMAIN searches, input \in HandlerInputs : MltQ(i, input)
    \/ \E i \in DOMAIN searches, input \in HandlerInputs : Filter(i, input)
    \/ \E i \in DOMAIN searches, input \in HandlerMltInputs : Mlt(i, input)
    \/ \E i \in DOMAIN searches : Paginate(i, Some(5), Nothing)
    \/ \E i \in DOMAIN searches : SortBy(i, "int_field")
    \/ \E i \in DOMAIN searches, kwargs \in ExtraInputs : AddExtra(i, kwargs)
    \/ \E i \in DOMAIN searches : ReadMltOptions(i)

SpecHandler == InitHandler /\ [][NextHandler]_vars

\* what s.options() returns, or raises, in the heap h, s an MltSolrSearch
MltOptionsIn(h, s) ==
    LET r == MltSolrSearch_options(h, s) IN [v |-> r.v, err |-> r.err]

MainQueryNames == QueryNames \cup {"exclude", "boost_relevancy", "Q"}
Derivers == {"filter", "mlt", "paginate", "sort_by", "add_extra"}

\* the calls of the main query fail on a search with a content or a url; a
\* search derived from one has its content and url; the constructor fails
\* when given both
C29_Restricted ==
    [][ /\ ( /\ nops' = nops + 1
             /\ call'.name \in MainQueryNames
             /\ HasContent(Receiver) )
           => raised' = "ValueError" /\ searches' = searches
        /\ Returns(Derivers) =>
              /\ Last(searches').content = Receiver.content
              /\ Last(searches').url = Receiver.url
        /\ ( /\ nops' = nops + 1
             /\ call'.name = "MltSolrSearch" )
           => IF call'.field.content # None /\ call'.field.url # None
              THEN raised' = "ValueError" /\ searches' = searches
              ELSE /\ raised' = ""
                   /\ Last(searches').content = call'.field.content
                   /\ Last(searches').url = call'.field.url ]_vars

\* C29: a search with a content or a url refuses query, query_by_term,
\* query_by_phrase, exclude, Q and boost_relevancy, as does every search
\* derived from it; its options() have a key 'q' only if add_extra put one
\* there; no search has both a content and a url.
C29_NoMainQuery ==
    /\ C29_Restricted
    /\ [](\A i \in DOMAIN searches :
             /\ ~(searches[i].content # None /\ searches[i].url # None)
             /\ HasContent(searches[i]) /\ "q" \in DOMAIN MltOptionsIn(heap, searches[i]).v
                   => "q" \in DOMAIN searches[i].extra)

\* the options of a search with a content or a url never have the key 'q'
C29_NeverQ ==
    \A i \in DOMAIN searches :
       HasContent(searches[i]) => "q" \notin DOMAIN MltOptionsIn(heap, searches[i]).v

\* query failed on a search with a content that a filter call had returned
C29_Witness ==
    /\ call.name = "query"
    /\ raised = "ValueError"
    /\ searches[call.on].content # None
    /\ searches[call.on].filters # << >>
    /\ "q" \notin DOMAIN MltOptionsIn(heap, searches[call.on]).v

(***************************************************************************)
(* Serialization of the client's expression (search.py, __str__), in the   *)
(* states of the query algebra.                                            *)
(***************************************************************************)
\* the POW nodes of the tree under q whose sub-query serializes to the
\* empty string
EmptyBoosts(h, q) ==
    {p.n : p \in {x \in Positions(h, q, 0, 0) :
                     /\ h.nodes[x.n]._pow # Nothing
                     /\ Len(Subqueries(h, x.n)) = 1
                     /\ Len(StrOf(h, Subqueries(h, x.n)[1]).v) = 0}}

\* C30: str of every expression built from Q(), &, |, ~ and ** returns
\* without an exception, and str of a boost of an expression that
\* serializes to the empty string returns the empty string.
C30_SerializationTotal ==
    cur # 0 =>
        /\ StrOf(heap, cur).err = ""
        /\ cur \in EmptyBoosts(heap, cur) => Len(StrOf(heap, cur).v) = 0

\* what holds instead: str raises only for an expression with a boost of an
\* empty expression in it, and for a boost of an empty expression it
\* raises AssertionError if the score is 0 and ValueError otherwise
C30_FailsOnEmptyBoost ==
    cur # 0 =>
        /\ StrOf(heap, cur).err # "" => EmptyBoosts(heap, cur) # {}
        /\ cur \in EmptyBoosts(heap, cur) =>
              StrOf(heap, cur).err = IF heap.nodes[cur]._pow = Some(0)
                                     THEN "AssertionError" ELSE "ValueError"

====
